---- MODULE Spec2Model ----
(***************************************************************************)
(* Verification model of the deterministic PDF review pipeline of the QCS  *)
(* submittal review agent (src/src/app/api/chat/route.ts) and of the       *)
(* helpers it calls.  Texts are TLA+ strings; the regular expressions of   *)
(* the source are evaluated character by character by the matcher below.   *)
(***************************************************************************)
EXTENDS Integers, Sequences, FiniteSets, TLC

\* ------------------------------------------------------------------------
\* Characters and strings
\* ------------------------------------------------------------------------
UpperLetters == "ABCDEFGHIJKLMNOPQRSTUVWXYZ"
LowerLetters == "abcdefghijklmnopqrstuvwxyz"
Digits == "0123456789"
SpaceChars == " \n\t\r"

Char(t, i) == SubSeq(t, i, i)

CharsOf(cs) == {Char(cs, k) : k \in 1..Len(cs)}

InChars(c, cs) == c \in CharsOf(cs)

ToLowerTable == [c \in CharsOf(UpperLetters) |-> Char(LowerLetters, CHOOSE k \in 1..26 : Char(UpperLetters, k) = c)]
ToUpperTable == [c \in CharsOf(LowerLetters) |-> Char(UpperLetters, CHOOSE k \in 1..26 : Char(LowerLetters, k) = c)]

\* String.prototype.toLowerCase on one character (ASCII letters)
LowerChar(c) == IF c \in DOMAIN ToLowerTable THEN ToLowerTable[c] ELSE c

\* String.prototype.toUpperCase on one character (ASCII letters)
UpperChar(c) == IF c \in DOMAIN ToUpperTable THEN ToUpperTable[c] ELSE c

\* String.prototype.toLowerCase
RECURSIVE toLowerCase(_)
toLowerCase(t) ==
  IF Len(t) <= 1 THEN LowerChar(t)
  ELSE toLowerCase(SubSeq(t, 1, Len(t) \div 2)) \o toLowerCase(SubSeq(t, Len(t) \div 2 + 1, Len(t)))

\* String.prototype.toUpperCase
RECURSIVE toUpperCase(_)
toUpperCase(t) ==
  IF Len(t) <= 1 THEN UpperChar(t)
  ELSE toUpperCase(SubSeq(t, 1, Len(t) \div 2)) \o toUpperCase(SubSeq(t, Len(t) \div 2 + 1, Len(t)))

WhiteSpace == CharsOf(SpaceChars)
IsSpace(c) == c \in WhiteSpace

\* \w of a JavaScript regular expression
WordChars == CharsOf(UpperLetters) \cup CharsOf(LowerLetters) \cup CharsOf(Digits) \cup {"_"}
IsWordChar(c) == c \in WordChars

\* \b at position i: exactly one of the characters i-1 and i is a word character
WordBoundary(t, i) ==
  LET before == i > 1 /\ i - 1 <= Len(t) /\ IsWordChar(Char(t, i - 1))
      after == i >= 1 /\ i <= Len(t) /\ IsWordChar(Char(t, i))
  IN before # after

\* the literal p occurs in t at position i
LitAt(t, p, i) == i >= 1 /\ i + Len(p) - 1 <= Len(t) /\ SubSeq(t, i, i + Len(p) - 1) = p

\* String.prototype.includes
Includes(t, p) == \E i \in 1..(Len(t) - Len(p) + 1) : LitAt(t, p, i)

\* String.prototype.trim
RECURSIVE TrimLeft(_)
TrimLeft(t) == IF t # "" /\ IsSpace(Char(t, 1)) THEN TrimLeft(SubSeq(t, 2, Len(t))) ELSE t

RECURSIVE TrimRight(_)
TrimRight(t) == IF t # "" /\ IsSpace(Char(t, Len(t))) THEN TrimRight(SubSeq(t, 1, Len(t) - 1)) ELSE t

Trim(t) == TrimRight(TrimLeft(t))

\* String.prototype.slice(from, to) with 0-based, end-exclusive indices
Slice(t, from, to) == SubSeq(t, from + 1, IF to < Len(t) THEN to ELSE Len(t))

\* Array.prototype.join
RECURSIVE Join(_, _)
Join(ss, sep) ==
  IF ss = <<>> THEN ""
  ELSE IF Len(ss) = 1 THEN ss[1]
  ELSE ss[1] \o sep \o Join(Tail(ss), sep)

\* Array.prototype.flat on a sequence of sequences
RECURSIVE Flat(_)
Flat(ss) == IF ss = <<>> THEN <<>> ELSE Head(ss) \o Flat(Tail(ss))

\* ------------------------------------------------------------------------
\* Regular expressions: a pattern is a set of alternatives, an alternative a
\* sequence of elements [k, s]:
\*   lit   the literal s            opt   the literal s, optional
\*   star  zero or more characters of the class s
\*   plus  one or more characters of the class s
\*   nstar zero or more characters outside the class s
\*   one   one character of the class s
\*   b     \b                       end   $
\* ------------------------------------------------------------------------
L(s) == [k |-> "lit", s |-> s]
Opt(s) == [k |-> "opt", s |-> s]
Star(s) == [k |-> "star", s |-> s]
Plus(s) == [k |-> "plus", s |-> s]
NStar(s) == [k |-> "nstar", s |-> s]
One(s) == [k |-> "one", s |-> s]
B == [k |-> "b", s |-> ""]
End == [k |-> "end", s |-> ""]

\* positions j >= i such that the characters i..j-1 all satisfy the class
RunEnds(t, i, cs, inside) ==
  LET chars == CharsOf(cs)
  IN {j \in i..(Len(t) + 1) : \A m \in i..(j - 1) : (Char(t, m) \in chars) = inside}

RECURSIVE MatchFrom(_, _, _)
MatchFrom(t, i, pat) ==
  IF pat = <<>> THEN TRUE
  ELSE LET e == Head(pat)
           r == Tail(pat)
       IN CASE e.k = "lit" -> LitAt(t, e.s, i) /\ MatchFrom(t, i + Len(e.s), r)
            [] e.k = "opt" -> \/ LitAt(t, e.s, i) /\ MatchFrom(t, i + Len(e.s), r)
                              \/ MatchFrom(t, i, r)
            [] e.k = "star" -> \E j \in RunEnds(t, i, e.s, TRUE) : MatchFrom(t, j, r)
            [] e.k = "plus" -> \E j \in RunEnds(t, i, e.s, TRUE) : j > i /\ MatchFrom(t, j, r)
            [] e.k = "nstar" -> \E j \in RunEnds(t, i, e.s, FALSE) : MatchFrom(t, j, r)
            [] e.k = "one" -> i <= Len(t) /\ Char(t, i) \in CharsOf(e.s) /\ MatchFrom(t, i + 1, r)
            [] e.k = "b" -> WordBoundary(t, i) /\ MatchFrom(t, i, r)
            [] e.k = "end" -> i = Len(t) + 1 /\ MatchFrom(t, i, r)

\* the literal every match of pat starts with ("" when it starts otherwise)
LeadingLiteral(pat) ==
  LET e == IF pat[1].k = "b" THEN pat[2] ELSE pat[1]
  IN IF e.k = "lit" THEN e.s ELSE ""

\* RegExp.prototype.test without flags
TestCS(alts, t) ==
  \E a \in alts :
    LET lit == LeadingLiteral(a)
    IN \E i \in 1..(Len(t) + 1) : LitAt(t, lit, i) /\ MatchFrom(t, i, a)

\* RegExp.prototype.test with the /i flag; the patterns are written in lower
\* case, as they are in the source
Test(alts, t) == TestCS(alts, toLowerCase(t))

\* a regular expression that is an alternation of plain words without \b
Words(ws) == {<<L(w)>> : w \in ws}

\* \b(w1|w2|...)\b
BoundedWords(ws) == {<<B, L(w), B>> : w \in ws}

\* /\bw1|w2|...|wn\b/: the alternation binds loosest, so only the first
\* alternative carries the leading \b and only the last the trailing \b
LooseAlt(ws) ==
  {(IF i = 1 THEN <<B>> ELSE <<>>) \o <<L(ws[i])>> \o (IF i = Len(ws) THEN <<B>> ELSE <<>>) :
     i \in 1..Len(ws)}

\* ------------------------------------------------------------------------
\* Constants of route.ts
\* ------------------------------------------------------------------------
MIN_CONTENT_CHARS == 80
MAX_TOTAL_REFS == 6
MAX_TOTAL_GRAPH_REFS == 4
MAX_QUERIES == 8
RESPONSE_CHUNK_SIZE == 140

REVIEW_STAGE_LABELS ==
  [uploaded |-> "Upload received",
   extracting |-> "Extracting document content...",
   analyzing |-> "Analyzing submittal structure...",
   retrieving |-> "Retrieving relevant QCS sections...",
   drafting |-> "Drafting compliance review..."]

NON_CONSTRUCTION_SIGNALS ==
  << [label |-> "internship", pattern |-> LooseAlt(<<"internship">>)],
     [label |-> "employment proof", pattern |-> LooseAlt(<<"employment proof">>)],
     [label |-> "confidentiality agreement", pattern |-> LooseAlt(<<"confidentiality agreement">>)],
     [label |-> "academic transcript", pattern |-> LooseAlt(<<"transcript", "gpa", "semester", "student id">>)],
     [label |-> "curriculum vitae", pattern |-> LooseAlt(<<"curriculum vitae", "resume", "cv">>)],
     [label |-> "banking document", pattern |-> LooseAlt(<<"bank statement", "iban", "account number", "swift">>)],
     [label |-> "medical record", pattern |-> LooseAlt(<<"medical report", "diagnosis", "patient", "hospital">>)],
     [label |-> "identity document", pattern |-> LooseAlt(<<"passport", "national id", "identity card", "visa">>)],
     [label |-> "legal affidavit", pattern |-> LooseAlt(<<"affidavit", "notary", "power of attorney">>)],
     [label |-> "student", pattern |-> LooseAlt(<<"student">>)],
     [label |-> "university", pattern |-> LooseAlt(<<"university", "college">>)],
     [label |-> "human resources", pattern |-> LooseAlt(<<"human resources", "hr">>)] >>

CONSTRUCTION_SIGNALS ==
  << [label |-> "construction submittal", pattern |-> LooseAlt(<<"submittal">>)],
     [label |-> "construction scope", pattern |-> LooseAlt(<<"construction", "civil", "structural", "architectural">>)],
     [label |-> "method statement", pattern |-> LooseAlt(<<"method statement">>)],
     [label |-> "shop drawing", pattern |-> LooseAlt(<<"shop drawing">>)],
     [label |-> "material data", pattern |-> LooseAlt(<<"material submittal", "product data", "technical data sheet">>)],
     [label |-> "construction testing", pattern |-> LooseAlt(<<"test report", "mill certificate", "mix design">>)],
     [label |-> "construction standards", pattern |-> LooseAlt(<<"qcs", "astm", "bs", "en", "iso", "nfpa">>)],
     [label |-> "construction approvals", pattern |-> LooseAlt(<<"qcdd", "qcd", "civil defence">>)] >>

CONSTRUCTION_KEYWORD_PATTERN ==
  BoundedWords({"submittal", "construction", "civil", "architectural", "structural",
                "method statement", "shop drawing", "product data", "technical data sheet",
                "concrete", "cement", "steel", "masonry", "mortar", "asphalt", "aggregate",
                "pipe", "valve", "cable", "earthing", "fire", "life safety", "qcdd", "qcd",
                "mix design", "test report", "mill certificate", "qcs", "astm", "nfpa",
                "bs", "en", "iso"})

TITLE_NON_CONSTRUCTION_PATTERN_no_confidentiality ==
  LooseAlt(<<"internship", "employment", "cv", "resume", "passport",
             "visa", "bank statement", "medical">>)

TITLE_NON_CONSTRUCTION_PATTERN ==
  LooseAlt(<<"internship", "employment", "cv", "resume", "confidentiality", "passport",
             "visa", "bank statement", "medical">>)

\* ------------------------------------------------------------------------
\* SubmittalAnalysis.  A nullable string is "" when null (every use in
\* route.ts is through `?? ""`); a null analysis is NullAnalysis.
\* ------------------------------------------------------------------------
NullAnalysis ==
  [isNull |-> TRUE, documentType |-> "other", title |-> "", project |-> "", contractor |-> "",
   keyFindings |-> <<>>, standardsCited |-> <<>>, materials |-> <<>>, certificates |-> <<>>,
   testResults |-> <<>>, drsItems |-> <<>>, suggestedQCSQueries |-> <<>>]

MkAnalysis(documentType, title, project, keyFindings, standardsCited, materials, certificates, testResults, drsItems, suggestedQCSQueries) ==
  [isNull |-> FALSE, documentType |-> documentType, title |-> title, project |-> project,
   contractor |-> "", keyFindings |-> keyFindings, standardsCited |-> standardsCited,
   materials |-> materials, certificates |-> certificates, testResults |-> testResults,
   drsItems |-> drsItems, suggestedQCSQueries |-> suggestedQCSQueries]

\* the elements visited by Array.prototype.some
SeqRange(s) == {s[i] : i \in 1..Len(s)}

MaterialText(m) == Join(<<m.name, m.manufacturer, m.supplier, m.standard>>, " ")
CertificateText(c) == Join(<<c.type, c.issuer, c.reference>>, " ")
TestResultText(t) == Join(<<t.test, t.result, t.requirement>>, " ")
PropertyText(p) == p.key \o " " \o p.value
MaterialKeywordText(m) ==
  m.name \o " " \o m.standard \o " " \o Join([i \in 1..Len(m.properties) |-> PropertyText(m.properties[i])], " ")
CertificateKeywordText(c) == c.type \o " " \o c.issuer \o " " \o c.reference
TestKeywordText(t) == t.test \o " " \o t.result \o " " \o t.requirement

\* signals.filter(signal => signal.pattern.test(text)).map(signal => signal.label)
collectSignalMatches(text, signals) ==
  LET hit == SelectSeq(signals, LAMBDA sg : Test(sg.pattern, text))
  IN [i \in 1..Len(hit) |-> hit[i].label]

titleLooksNonConstruction_never(analysis) == FALSE

\* titleLooksNonConstruction of assessDocumentScope
titleLooksNonConstruction(analysis) ==
  ~analysis.isNull /\ Test(TITLE_NON_CONSTRUCTION_PATTERN, analysis.title)

isOutOfScope_title_alone(titleLooks, structuredEvidence, outOfScopeScore, inScopeScore) ==
  \/ titleLooks
  \/ outOfScopeScore >= 5 /\ outOfScopeScore > inScopeScore + 1

\* const isOutOfScope = ... of assessDocumentScope
isOutOfScope(titleLooks, structuredEvidence, outOfScopeScore, inScopeScore) ==
  \/ titleLooks /\ ~structuredEvidence
  \/ outOfScopeScore >= 5 /\ outOfScopeScore > inScopeScore + 1

assessDocumentScope(analysis, rawText) ==
  LET present == ~analysis.isNull
      materialsText ==
        IF present THEN Join([i \in 1..Len(analysis.materials) |-> MaterialText(analysis.materials[i])], " ") ELSE ""
      certificatesText ==
        IF present THEN Join([i \in 1..Len(analysis.certificates) |-> CertificateText(analysis.certificates[i])], " ") ELSE ""
      testsText ==
        IF present THEN Join([i \in 1..Len(analysis.testResults) |-> TestResultText(analysis.testResults[i])], " ") ELSE ""
      analysisText ==
        IF present
          THEN Join(<<analysis.title, analysis.project, analysis.contractor,
                      Join(analysis.keyFindings, " "), Join(analysis.standardsCited, " "),
                      materialsText, certificatesText, testsText>>, " ")
          ELSE ""
      combinedText == analysisText \o "\n" \o Slice(rawText, 0, 6000)
      nonConstructionSignals == collectSignalMatches(combinedText, NON_CONSTRUCTION_SIGNALS)
      constructionSignals == collectSignalMatches(combinedText, CONSTRUCTION_SIGNALS)
      hasConstructionStandards ==
        present /\ \E s \in SeqRange(analysis.standardsCited) : Test(CONSTRUCTION_KEYWORD_PATTERN, s)
      hasConstructionMaterials ==
        present /\ \E m \in SeqRange(analysis.materials) : Test(CONSTRUCTION_KEYWORD_PATTERN, MaterialKeywordText(m))
      hasConstructionCertificates ==
        present /\ \E c \in SeqRange(analysis.certificates) : Test(CONSTRUCTION_KEYWORD_PATTERN, CertificateKeywordText(c))
      hasConstructionTests ==
        present /\ \E t \in SeqRange(analysis.testResults) : Test(CONSTRUCTION_KEYWORD_PATTERN, TestKeywordText(t))
      hasConstructionInRawText == Test(CONSTRUCTION_KEYWORD_PATTERN, combinedText)
      knownConstructionDocType == present /\ analysis.documentType # "other"
      hasStructuredConstructionEvidence ==
        present /\ (hasConstructionMaterials \/ hasConstructionTests \/ hasConstructionCertificates
                    \/ hasConstructionStandards \/ Len(analysis.drsItems) > 0)
      otherType == present /\ analysis.documentType = "other"
      outOfScopeScore ==
        (IF otherType THEN 2 ELSE 0) + (IF ~knownConstructionDocType THEN 1 ELSE 0)
        + (IF ~hasStructuredConstructionEvidence THEN 2 ELSE 0)
        + (IF Len(nonConstructionSignals) >= 1 THEN 2 ELSE 0)
        + (IF Len(nonConstructionSignals) >= 3 THEN 1 ELSE 0)
        + (IF ~hasConstructionInRawText THEN 1 ELSE 0)
      inScopeScore ==
        (IF knownConstructionDocType THEN 2 ELSE 0)
        + (IF hasStructuredConstructionEvidence THEN 4 ELSE 0)
        + (IF Len(constructionSignals) >= 1 THEN 2 ELSE 0)
        + (IF Len(constructionSignals) >= 3 THEN 1 ELSE 0)
        + (IF hasConstructionInRawText THEN 1 ELSE 0)
  IN [isOutOfScope |-> isOutOfScope(titleLooksNonConstruction(analysis), hasStructuredConstructionEvidence,
                                   outOfScopeScore, inScopeScore),
      nonConstructionSignals |-> nonConstructionSignals,
      constructionSignals |-> constructionSignals,
      hasStructuredConstructionEvidence |-> hasStructuredConstructionEvidence,
      outOfScopeScore |-> outOfScopeScore,
      inScopeScore |-> inScopeScore]

\* ------------------------------------------------------------------------
\* Query list and critical-reason rules
\* ------------------------------------------------------------------------
\* q.replace(/\s+/g, " ")
RECURSIVE CollapseSpaces(_)
CollapseSpaces(t) ==
  IF t = "" THEN ""
  ELSE IF IsSpace(Char(t, 1))
    THEN " " \o CollapseSpaces(TrimLeft(t))
    ELSE Char(t, 1) \o CollapseSpaces(SubSeq(t, 2, Len(t)))

normalizeQuery(q) == CollapseSpaces(toLowerCase(Trim(q)))

BaselineQueries_five ==
  << "method statement submittal requirements qcs 2024",
     "qcs 2024 fire life safety product approval qcd qcdd requirements",
     "qcs 2024 concrete mix design and submittal requirements",
     "qcs 2024 earthworks compaction and field density testing",
     "qcs 2024 masonry block work and mortar requirements" >>

BaselineQueries ==
  << "method statement submittal requirements qcs 2024",
     "qcs 2024 fire life safety product approval qcd qcdd requirements",
     "qcs 2024 concrete mix design and submittal requirements",
     "qcs 2024 earthworks compaction and field density testing",
     "qcs 2024 masonry block work and mortar requirements",
     "qcs 2024 quality assurance inspection testing requirements" >>

\* the dedup loop of buildDeterministicQueries over the rest of `merged`
RECURSIVE DedupQueries(_, _, _)
DedupQueries(merged, seen, deduped) ==
  IF merged = <<>> THEN deduped
  ELSE LET q == Head(merged)
           key == normalizeQuery(q)
       IN IF key \in seen THEN DedupQueries(Tail(merged), seen, deduped)
          ELSE IF Len(deduped) + 1 >= MAX_QUERIES THEN Append(deduped, Trim(q))
          ELSE DedupQueries(Tail(merged), seen \cup {key}, Append(deduped, Trim(q)))

buildDeterministicQueries_baseline_first(analysis) ==
  LET suggested == IF analysis.isNull THEN <<>> ELSE analysis.suggestedQCSQueries
      merged == SelectSeq(BaselineQueries \o suggested, LAMBDA q : Len(Trim(q)) > 0)
  IN DedupQueries(merged, {}, <<>>)

buildDeterministicQueries(analysis) ==
  LET suggested == IF analysis.isNull THEN <<>> ELSE analysis.suggestedQCSQueries
      merged == SelectSeq(suggested \o BaselineQueries, LAMBDA q : Len(Trim(q)) > 0)
  IN DedupQueries(merged, {}, <<>>)

REASON_QCS_2014 ==
  "The submittal references QCS 2014 and does not explicitly confirm full compliance with QCS 2024."
REASON_FIRE_QCD ==
  "Fire life safety scope is present, but explicit QCD/QCDD approval evidence for products/systems is not provided in this submittal."

QCS_2014_PATTERN ==
  { <<L("q"), Opt("."), Star(SpaceChars), L("c"), Opt("."), Star(SpaceChars), L("s"), Opt("."),
      Star(SpaceChars), L("2014")>>,
    <<L("qcs"), Star(SpaceChars), L("2014")>> }
QCS_2024_PATTERN == { <<L("qcs"), Star(SpaceChars), L("2024")>> }
FIRE_SCOPE_PATTERN ==
  Words({"fire", "life safety", "qcdd", "qcd", "alarm", "firefighting", "passive fire"})
QCD_EVIDENCE_PATTERN == Words({"qcd", "qcdd", "civil defence"})

detectCriticalReasons(analysis) ==
  IF analysis.isNull THEN <<>>
  ELSE
    LET standards == Join(analysis.standardsCited, " ")
        findings == Join(analysis.keyFindings, " ")
        projectText ==
          toLowerCase(analysis.title \o " " \o analysis.project \o " "
                      \o Join([i \in 1..Len(analysis.materials) |-> analysis.materials[i].name], " "))
        combined == toLowerCase(standards \o " " \o findings)
        referencesQcs2014 ==
          Test(QCS_2014_PATTERN, standards \o " " \o findings \o " " \o analysis.title)
        confirmsQcs2024 == Test(QCS_2024_PATTERN, combined)
        fireScope == Test(FIRE_SCOPE_PATTERN, projectText)
        hasQcdEvidence ==
          \E c \in SeqRange(analysis.certificates) :
            Test(QCD_EVIDENCE_PATTERN, c.type \o " " \o c.issuer \o " " \o c.reference)
    IN (IF referencesQcs2014 /\ ~confirmsQcs2024 THEN <<REASON_QCS_2014>> ELSE <<>>)
       \o (IF fireScope /\ ~hasQcdEvidence THEN <<REASON_FIRE_QCD>> ELSE <<>>)

\* ------------------------------------------------------------------------
\* Filtering, ranking and references.  A score is in hundredths.
\* ------------------------------------------------------------------------
TOC_ARTIFACT_PATTERN == { <<L("..."), Star("."), Star(SpaceChars), Plus(Digits), Star(SpaceChars), End>> }
\* (the last alternative of the source, yes\s*[box]\s*no\s*[box], needs a
\* non-ASCII character and cannot match the ASCII titles of this model)
FORM_FIELD_PATTERN ==
  Words({"company name", "inspection date", "plant location", "plant no/s", "plant manufacturer",
         "plant id no", "approval certificate no", "contact a plant"})
GENERIC_HEADINGS == {"scope", "introduction", "references"}

KeepResult_generic_any_origin(r) ==
  /\ Trim(r.clauseNumber) # ""
  /\ Len(Trim(r.content)) >= MIN_CONTENT_CHARS
  /\ ~TestCS(TOC_ARTIFACT_PATTERN, r.clauseTitle)
  /\ ~(toLowerCase(Trim(r.clauseTitle)) \in GENERIC_HEADINGS)
  /\ ~Test(FORM_FIELD_PATTERN, r.clauseTitle)

\* the predicate of filterResults
KeepResult(r) ==
  /\ Trim(r.clauseNumber) # ""
  /\ Len(Trim(r.content)) >= MIN_CONTENT_CHARS
  /\ ~TestCS(TOC_ARTIFACT_PATTERN, r.clauseTitle)
  /\ ~(toLowerCase(Trim(r.clauseTitle)) \in GENERIC_HEADINGS /\ r.isGraph)
  /\ ~Test(FORM_FIELD_PATTERN, r.clauseTitle)

filterResults(results) == SelectSeq(results, KeepResult)

\* title.replace(/\s*\.{3,}\s*\d+\s*$/, "").trim()
cleanClauseTitle(title) ==
  LET pat == <<Star(SpaceChars)>> \o CHOOSE a \in TOC_ARTIFACT_PATTERN : TRUE
      starts == {i \in 1..(Len(title) + 1) : MatchFrom(title, i, pat)}
  IN IF starts = {} THEN Trim(title)
     ELSE Trim(SubSeq(title, 1, (CHOOSE i \in starts : \A j \in starts : i <= j) - 1))

buildReference(r) ==
  [reference |->
     "QCS 2024 Section " \o r.sectionNumber \o ": " \o r.sectionTitle \o ", "
     \o "Part " \o r.partNumber \o ": " \o r.partTitle \o ", "
     \o "Clause " \o r.clauseNumber \o ": " \o cleanClauseTitle(r.clauseTitle)
     \o " (Pages " \o ToString(r.pageStart) \o "-" \o ToString(r.pageEnd) \o ")",
   content |-> r.content,
   relevanceScore |-> r.score,
   source |-> IF r.isGraph THEN "graph" ELSE "vector"]

ClauseKey(row) == row.sectionNumber \o "|" \o row.partNumber \o "|" \o row.clauseNumber

RECURSIVE DedupByClause_first_wins(_, _)
DedupByClause_first_wins(rows, byClause) ==
  IF rows = <<>> THEN byClause
  ELSE LET row == Head(rows)
           at == {i \in 1..Len(byClause) : ClauseKey(byClause[i]) = ClauseKey(row)}
       IN DedupByClause_first_wins(Tail(rows), IF at = {} THEN Append(byClause, row) ELSE byClause)

RECURSIVE DedupByClause_score_only(_, _)
DedupByClause_score_only(rows, byClause) ==
  IF rows = <<>> THEN byClause
  ELSE LET row == Head(rows)
           at == {i \in 1..Len(byClause) : ClauseKey(byClause[i]) = ClauseKey(row)}
       IN IF at = {} THEN DedupByClause_score_only(Tail(rows), Append(byClause, row))
          ELSE LET i == CHOOSE k \in at : TRUE
               IN DedupByClause_score_only(Tail(rows),
                    IF row.score > byClause[i].score THEN [byClause EXCEPT ![i] = row] ELSE byClause)

\* the Map of rankAndSelect: a sequence of rows in key insertion order
RECURSIVE DedupByClause(_, _)
DedupByClause(rows, byClause) ==
  IF rows = <<>> THEN byClause
  ELSE LET row == Head(rows)
           at == {i \in 1..Len(byClause) : ClauseKey(byClause[i]) = ClauseKey(row)}
       IN IF at = {} THEN DedupByClause(Tail(rows), Append(byClause, row))
          ELSE LET i == CHOOSE k \in at : TRUE
                   existing == byClause[i]
                   preferNew == \/ existing.isGraph /\ ~row.isGraph
                                \/ existing.isGraph = row.isGraph /\ row.score > existing.score
               IN DedupByClause(Tail(rows), IF preferNew THEN [byClause EXCEPT ![i] = row] ELSE byClause)

RankBefore_score_only(a, b) == a.score > b.score

\* the comparator of the sort is negative: a goes before b
RankBefore(a, b) ==
  IF a.isGraph # b.isGraph THEN ~a.isGraph ELSE a.score > b.score

\* Array.prototype.sort is stable
RECURSIVE StableSort(_, _)
StableSort(rows, sorted) ==
  IF rows = <<>> THEN sorted
  ELSE LET row == Head(rows)
           after == {i \in 1..Len(sorted) : RankBefore(row, sorted[i])}
           pos == IF after = {} THEN Len(sorted) + 1 ELSE CHOOSE i \in after : \A j \in after : i <= j
       IN StableSort(Tail(rows), SubSeq(sorted, 1, pos - 1) \o <<row>> \o SubSeq(sorted, pos, Len(sorted)))

\* the selection loop of rankAndSelect
RECURSIVE SelectRows(_, _, _, _, _)
SelectRows(deduped, selected, graphCount, maxTotal, maxGraph) ==
  IF deduped = <<>> THEN selected
  ELSE LET row == Head(deduped)
       IN IF row.isGraph /\ graphCount >= maxGraph
            THEN SelectRows(Tail(deduped), selected, graphCount, maxTotal, maxGraph)
          ELSE IF Len(selected) + 1 >= maxTotal THEN Append(selected, row)
          ELSE SelectRows(Tail(deduped), Append(selected, row),
                          IF row.isGraph THEN graphCount + 1 ELSE graphCount, maxTotal, maxGraph)

\* the rows rankAndSelect selects, before they are mapped to references
selectedRows(rows, maxTotal, maxGraph) ==
  SelectRows(StableSort(DedupByClause(rows, <<>>), <<>>), <<>>, 0, maxTotal, maxGraph)

rankAndSelect(rows, maxTotal, maxGraph) ==
  LET selected == selectedRows(rows, maxTotal, maxGraph)
  IN [i \in 1..Len(selected) |-> buildReference(selected[i])]

buildCitationSection_one_line(refs) ==
  IF Len(refs) = 0 THEN ""
  ELSE "### CITATIONS\n" \o Join([i \in 1..Len(refs) |-> "- " \o refs[i].reference], "; ")

buildCitationSection(refs) ==
  IF Len(refs) = 0 THEN ""
  ELSE "### CITATIONS\n" \o Join([i \in 1..Len(refs) |-> "- " \o refs[i].reference], "\n")

\* String.prototype.split("\n")
RECURSIVE SplitLines(_)
SplitLines(t) ==
  LET breaks == {i \in 1..Len(t) : Char(t, i) = "\n"}
  IN IF breaks = {} THEN <<t>>
     ELSE LET i == CHOOSE b \in breaks : \A c \in breaks : b <= c
          IN <<SubSeq(t, 1, i - 1)>> \o SplitLines(SubSeq(t, i + 1, Len(t)))

\* the reader of a citation section: the reference strings of its list
\* lines ("- " followed by the reference), in order
parseCitationSection(text) ==
  LET lines == SelectSeq(SplitLines(text), LAMBDA l : LitAt(l, "- ", 1))
  IN [i \in 1..Len(lines) |-> SubSeq(lines[i], 3, Len(lines[i]))]

REJECTED_PATTERN == BoundedWords({"rejected"})
OUT_OF_SCOPE_PATTERN ==
      { <<B, L("out"), One("-" \o SpaceChars), L("of"), One("-" \o SpaceChars), L("scope"), B>>,
         <<B, L("outside the scope"), B>>,
         <<B, L("not a construction submittal"), B>>,
         <<B, L("unrelated to construction"), B>>,
         <<B, L("qcs "), NStar("\n\r"), L(" not applicable"), B>>,
         <<B, L("non-construction document"), B>> }

isOutOfScopeReviewText(text) ==
  LET lower == toLowerCase(text)
  IN IF ~TestCS(REJECTED_PATTERN, lower) THEN FALSE ELSE TestCS(OUT_OF_SCOPE_PATTERN, lower)

chunkText(text, chunkSize) ==
  [k \in 1..((Len(text) + chunkSize - 1) \div chunkSize) |->
     SubSeq(text, (k - 1) * chunkSize + 1, IF k * chunkSize < Len(text) THEN k * chunkSize ELSE Len(text))]

\* getVerdictInfo of the chat page: the verdict badge shown for a response
VERDICT_APPROVED_PATTERN == { <<L("VERDICT"), Star(": \n\t\r"), Opt("*"), Opt("*"), L("APPROVED")>> }
VERDICT_REJECTED_PATTERN == { <<L("VERDICT"), Star(": \n\t\r"), Opt("*"), Opt("*"), L("REJECTED")>> }

getVerdictInfo(text) ==
  LET upper == toUpperCase(text)
  IN IF Includes(upper, "**APPROVED**") \/ TestCS(VERDICT_APPROVED_PATTERN, upper) THEN "APPROVED"
     ELSE IF Includes(upper, "**REJECTED**") \/ TestCS(VERDICT_REJECTED_PATTERN, upper) THEN "REJECTED"
     ELSE IF Includes(upper, "NEEDS REVISION") THEN "NEEDS REVISION"
     ELSE "none"

\* ------------------------------------------------------------------------
\* The fixed report templates of the PDF review path
\* ------------------------------------------------------------------------
EXTRACTION_FAILURE_TEMPLATE ==
  Join(<< "### VERDICT",
          "NEEDS REVISION",
          "",
          "### DOCUMENT OVERVIEW",
          "The PDF could not be processed for grounded review.",
          "",
          "### SUMMARY",
          "This response is fail-closed: a compliance verdict cannot be approved without grounded evidence from the uploaded document and QCS retrieval.",
          "",
          "### DETAILED ANALYSIS",
          "- PDF extraction failed, so document evidence could not be reliably analyzed.",
          "- A grounded compliance decision requires extracted submittal evidence and retrieved QCS clauses.",
          "",
          "### RECOMMENDATIONS",
          "- Re-upload the PDF and retry the review.",
          "- Ensure the document is readable and not corrupted.",
          "- If the issue persists, provide a text-based export alongside the PDF." >>, "\n")

OUT_OF_SCOPE_TEMPLATE(signalSummary) ==
  Join(<< "### VERDICT",
          "REJECTED",
          "",
          "### DOCUMENT OVERVIEW",
          "The uploaded file appears to be a non-construction document and is outside the scope of QCS submittal compliance review.",
          "",
          "### SUMMARY",
          "The document is not a construction submittal, so QCS clause-by-clause compliance checking is not applicable. The request is rejected as out-of-scope for this reviewer.",
          "",
          "### DETAILED ANALYSIS",
          "1. Document signals indicate non-construction context (" \o signalSummary \o ").",
          "2. The extracted content does not provide structured construction-submittal evidence (materials, test reports, certificates, or DRS items).",
          "3. Because the file is out-of-scope, QCS clause citations are intentionally omitted.",
          "4. A standards-based compliance review can proceed only after a relevant construction submittal is uploaded.",
          "",
          "### RECOMMENDATIONS",
          "- Upload a construction-related document (for example: material submittal, method statement, mix design, test report, shop drawing, or product certificate).",
          "- If this upload was accidental, replace it with the intended project submittal PDF." >>, "\n")

EMPTY_EVIDENCE_TEMPLATE(reasons) ==
  Join(<< "### VERDICT",
          "NEEDS REVISION",
          "",
          "### DOCUMENT OVERVIEW",
          "The submitted method statement could not be grounded to valid QCS references after deterministic retrieval.",
          "",
          "### SUMMARY",
          "This is a fail-closed result: because no validated references were retrieved, the system cannot issue an evidence-backed approval.",
          "",
          "### DETAILED ANALYSIS",
          "- Retrieval produced zero validated QCS references after quality filters.",
          "- Without grounded citations, any detailed compliance conclusion would risk fabrication.",
          IF Len(reasons) > 0
            THEN "- Critical gap(s) detected:\n" \o Join([i \in 1..Len(reasons) |-> "  - " \o reasons[i]], "\n")
            ELSE "",
          "",
          "### RECOMMENDATIONS",
          "- Re-run with a clearer PDF/OCR source if available.",
          "- Provide explicit QCS 2024 alignment statements in the submittal.",
          "- Provide required fire-life-safety approvals/certifications where applicable." >>, "\n")

GENERATION_FALLBACK_TEMPLATE ==
  Join(<< "### VERDICT",
          "NEEDS REVISION",
          "",
          "### DOCUMENT OVERVIEW",
          "This submittal is a method statement and requires evidence-backed alignment with QCS 2024.",
          "",
          "### SUMMARY",
          "The review could not complete full narrative generation, but grounded evidence indicates revision is required before approval.",
          "",
          "### DETAILED ANALYSIS",
          "1. The submittal must be aligned to QCS 2024 requirements.",
          "2. Fire life safety scope requires explicit approval evidence for relevant products/systems.",
          "3. Method statement claims should be tied to measurable QA/QC criteria and cited clauses.",
          "4. Existing historical approval stamps do not replace current-cycle compliance review.",
          "",
          "### RECOMMENDATIONS",
          "- Update all legacy references to QCS 2024.",
          "- Provide explicit product approvals/certifications where required.",
          "- Re-submit with clear clause-level compliance statements." >>, "\n")

INTERNAL_ERROR_BODY ==
  << "",
     "### DOCUMENT OVERVIEW",
     "The review pipeline encountered an internal error.",
     "",
     "### SUMMARY",
     "This response is fail-closed to avoid ungrounded approvals.",
     "",
     "### DETAILED ANALYSIS",
     "- The deterministic review pipeline failed before completing a grounded comparison.",
     "- A reliable verdict requires successful extraction, retrieval, and evidence-based generation.",
     "",
     "### RECOMMENDATIONS",
     "- Retry the same document once.",
     "- If failure persists, upload a text-based export alongside the PDF." >>

INTERNAL_ERROR_TEMPLATE_approved == Join(<<"### VERDICT", "APPROVED">> \o INTERNAL_ERROR_BODY, "\n")

INTERNAL_ERROR_TEMPLATE == Join(<<"### VERDICT", "NEEDS REVISION">> \o INTERNAL_ERROR_BODY, "\n")

\* ------------------------------------------------------------------------
\* The event stream written through `writer`
\* ------------------------------------------------------------------------
Event(type, id, text) == [type |-> type, id |-> id, text |-> text]

StageEvent(id) == Event("data-review-stage", id, REVIEW_STAGE_LABELS[id])

SourceEvents(refList) ==
  [i \in 1..Len(refList) |-> Event("source-url", refList[i].source \o "-" \o ToString(i), refList[i].reference)]

\* the events of writeReportToStream(writer, text, refs)
writeReportToStream(text, refList) ==
  LET deltas == chunkText(text, RESPONSE_CHUNK_SIZE)
  IN SourceEvents(refList)
     \o <<Event("text-start", "text-1", "")>>
     \o [i \in 1..Len(deltas) |-> Event("text-delta", "text-1", deltas[i])]
     \o <<Event("text-end", "text-1", "")>>

FinishEvents == <<Event("finish-step", "", ""), Event("finish", "", "stop")>>

\* ------------------------------------------------------------------------
\* Inputs: uploaded documents, analyzer outputs, index contents, generation
\* ------------------------------------------------------------------------
\* bound on the number of parts the generation stream delivers
MaxGenParts == 1

\* rawText as extractPDF builds it for a one-page text PDF
PageRawText(pageText) == "--- PAGE 1 ---\n" \o pageText

PAGE_METHOD_STATEMENT ==
  "Method statement for masonry block work. Materials comply with QCS 2014 Section 13. Concrete blocks and mortar mix design attached."
PAGE_BANK ==
  "Bank statement with IBAN and account number issued for the student of the university hospital for a visa application."

PageTexts == {PAGE_METHOD_STATEMENT, PAGE_BANK}

DRS_ITEM ==
  [itemNumber |-> 1, reviewerComment |-> "Provide data sheet", contractorResponse |-> "Attached",
   status |-> "complied"]

TITLE_CONFIDENTIALITY == "Employee Confidentiality Agreement"

\* analyses with the confidentiality title and no materials, tests,
\* certificates or standards; the other fields vary
ConfidentialityAnalyses ==
  { MkAnalysis(dt, TITLE_CONFIDENTIALITY, "Civil construction submittal",
               <<"Test report attached per QCS 2014">>, <<>>, <<>>, <<>>, <<>>, drs, <<>>) :
      dt \in {"other", "method_statement"},
      drs \in {<<>>, <<DRS_ITEM>>} }

ANALYSIS_METHOD_STATEMENT ==
  MkAnalysis("method_statement", "Method Statement for Block Work", "Tower A",
             <<"Block work sequence described">>, <<"QCS 2014 Section 13", "BS EN 771">>,
             <<[name |-> "Concrete block", manufacturer |-> "", supplier |-> "", standard |-> "BS EN 771",
                properties |-> <<[key |-> "strength", value |-> "7 N/mm2"]>>]>>,
             <<>>, <<>>, <<>>,
             <<" QCS 2024  Masonry Block Work and mortar requirements ", "  ">>)

ANALYSIS_FIRE_ALARM ==
  MkAnalysis("material_submittal", "Fire Alarm System Material Submittal", "Tower A",
             <<"Complies with QCS 2024 Section 23">>, <<"QCS 2024", "NFPA 72">>,
             <<>>,
             <<[type |-> "QCDD approval", issuer |-> "Civil Defence", reference |-> "QCD-1"]>>,
             <<[test |-> "Fire test report", result |-> "pass", requirement |-> ""]>>,
             <<>>,
             <<"QCS 2024 Fire Life Safety product approval QCD QCDD requirements">>)

Analyses == ConfidentialityAnalyses \cup {ANALYSIS_METHOD_STATEMENT, ANALYSIS_FIRE_ALARM}

\* index contents
CONTENT_OK ==
  "The contractor shall submit the material data, test certificates and samples to the engineer for approval before use."
Row(section, part, clause, title, score, isGraph, content) ==
  [id |-> section \o "-" \o part \o "-" \o clause, score |-> score,
   sectionNumber |-> section, sectionTitle |-> "Section " \o section,
   partNumber |-> part, partTitle |-> "Part " \o part,
   clauseNumber |-> clause, clauseTitle |-> title, pageStart |-> 10, pageEnd |-> 11,
   content |-> content, isGraph |-> isGraph]

ROW_MASONRY == Row("13", "4", "4.2.1", "Concrete Masonry Units", 82, FALSE, CONTENT_OK)
ROW_MASONRY_LOW == Row("13", "4", "4.2.1", "Concrete Masonry Units", 61, FALSE, CONTENT_OK)
ROW_FIRE == Row("23", "2", "2.1.3", "Fire Alarm Approvals", 78, FALSE, CONTENT_OK)
ROW_TOC == Row("23", "1", "1.1", "General ........ 14", 90, FALSE, CONTENT_OK)
ROW_SHORT == Row("5", "1", "1.2", "Definitions", 88, FALSE, "See Part 1.")
ROW_FIRE_GRAPH == Row("23", "2", "2.1.3", "Fire Alarm Approvals", 50, TRUE, CONTENT_OK)
ROW_SCOPE_GRAPH == Row("23", "1", "1.0", "Scope", 50, TRUE, CONTENT_OK)
ROW_CEMENT_GRAPH == Row("5", "3", "3.1.1", "Cement", 50, TRUE, CONTENT_OK)

\* what searchQCS(query, 8) returns from the index
searchQCS(query) ==
  LET q == toLowerCase(query)
  IN IF Includes(q, "masonry") THEN <<ROW_MASONRY>>
     ELSE IF Includes(q, "fire") THEN <<ROW_TOC, ROW_FIRE, ROW_MASONRY_LOW>>
     ELSE <<ROW_SHORT>>

\* the graph-derived rows hybridSearch(query, 8, 2, 12) appends
GraphRows(query) ==
  LET q == toLowerCase(query)
  IN IF Includes(q, "fire") THEN <<ROW_FIRE_GRAPH, ROW_SCOPE_GRAPH, ROW_CEMENT_GRAPH>>
     ELSE <<>>

hybridSearch(query) == searchQCS(query) \o GraphRows(query)

\* parts of reportResult.fullStream
GEN_APPROVED ==
  "### VERDICT\nAPPROVED\n\n### DOCUMENT OVERVIEW\nThe submittal is complete and evidenced [C1].\n"
GEN_NEEDS_REVISION ==
  "### VERDICT\nNEEDS REVISION\n\n### DOCUMENT OVERVIEW\nThe submittal lacks required evidence [C1].\n"
GEN_REJECTED_OUT_OF_SCOPE ==
  "### VERDICT\nREJECTED\n\n### SUMMARY\nThe document is out-of-scope for QCS review.\n"

\* a review of an in-scope submittal that speaks of a rejected sample and of
\* the scope of a part
GEN_REVISION_MENTIONS_REJECTED ==
  "### VERDICT\nNEEDS REVISION\n\n### SUMMARY\nThe rejected sample is outside the scope of Part 2 [C1].\n"

GenTexts == {GEN_APPROVED, GEN_NEEDS_REVISION, GEN_REJECTED_OUT_OF_SCOPE, GEN_REVISION_MENTIONS_REJECTED}

StreamParts ==
  {[type |-> t, text |-> "thinking"] : t \in {"reasoning-start", "reasoning-delta", "reasoning-end"}}
  \cup {[type |-> "text-delta", text |-> g] : g \in GenTexts}

\* ------------------------------------------------------------------------
\* The PDF review request (POST with a PDF attachment)
\* ------------------------------------------------------------------------
VARIABLES pc, useGraphRAG, rawText, analysis, scopeAssessment, queries, indexAnswer, qstate,
          rawResultsNested, refs, criticalReasons, textStarted, generatedReviewText,
          events, calls, streamed, genText, outcome

\* a call of filterResults and rankAndSelect on its own: the rows handed in,
\* the rows kept by the filter, the rows selected, and the position of the call
VARIABLES rankRows, rankFiltered, rankSelected, rankPc

\* the caps maxTotal and maxGraph of the call
VARIABLES rankMaxTotal, rankMaxGraph

rankVars == <<rankRows, rankFiltered, rankSelected, rankPc, rankMaxTotal, rankMaxGraph>>

\* the knowledge graph store, and the commands of a pipeline sent to it that
\* it has not executed yet
VARIABLES redis, ingestPending, dropped

storeVars == <<redis, ingestPending, dropped>>

\* a call of hybridSearch: its position, its arguments graphHops and
\* maxGraphChunks, vectorResults, entityIds, and how it ended
VARIABLES hsPc, hsMaxHops, hsMaxChunks, hsVector, hsEntityIds, hsResult, hsOutcome

\* the traversal inside it: hops done, visited entities, frontier, the
\* relationship ids read for the frontier, the relationship ids seen, the
\* chunk ids collected; and, for the record, the entities expanded, the
\* chunk ids in the order they were met and the relationship ids skipped
VARIABLES travHop, travVisited, travFrontier, travRelIds, travSeenRels, travResult,
          travExpanded, travLog, travSkipped

hsVars == <<hsPc, hsMaxHops, hsMaxChunks, hsVector, hsEntityIds, hsResult, hsOutcome>>

travVars == <<travHop, travVisited, travFrontier, travRelIds, travSeenRels, travResult,
              travExpanded, travLog, travSkipped>>

\* repeated application of writeGraphBatch: the batches written, the replay
\* position, and the store at the end of the first pass
VARIABLES wrPhase, wrOrder, wrPos, wrSnapshot

writeVars == <<wrPhase, wrOrder, wrPos, wrSnapshot>>

\* main of the graph build: run number, START_FROM, wave offset w, results of
\* the wave's settled promises, counters, the progress file; history: windows
\* written by the first run, windows handled by the resumed run, windows of
\* batches that failed in the current run, failures so far, windows of
\* batches counted as errors in either run
VARIABLES grPc, grRun, grStart, grW, grResults, grProcessed, grErrors, grTotalEntities,
          grTotalRelationships, grCheckpoint, grCompleted1, grHandled2, grFailedWindows,
          grInjected, grErrorWindows

graphVars == <<grPc, grRun, grStart, grW, grResults, grProcessed, grErrors, grTotalEntities,
               grTotalRelationships, grCheckpoint, grCompleted1, grHandled2, grFailedWindows,
               grInjected, grErrorWindows>>

buildVars == <<writeVars, graphVars>>

\* a call of buildDeterministicQueries on its own: the analysis handed in,
\* the list returned, and the position of the call
VARIABLES qbAnalysis, qbQueries, qbPc

queryVars == <<qbAnalysis, qbQueries, qbPc>>

\* the state outside the PDF review
\* the model calls of the batches of one wave (SpecExtract)
VARIABLES exPc, exRound, exCalls

extractVars == <<exPc, exRound, exCalls>>

\* the input and the windows of groupChunks (SpecGroup)
VARIABLES gcChunks, gcGroups, gcPc

groupVars == <<gcChunks, gcGroups, gcPc>>

scriptVars == <<extractVars, groupVars>>

libVars == <<rankVars, storeVars, hsVars, travVars, buildVars, queryVars, scriptVars>>

RankIdle ==
  /\ rankRows = <<>> /\ rankFiltered = <<>> /\ rankSelected = <<>> /\ rankPc = "idle"
  /\ rankMaxTotal = 0 /\ rankMaxGraph = 0

StoreIdle ==
  /\ redis = [ent |-> <<>>, idx |-> <<>>, chunkEnts |-> <<>>, rel |-> <<>>, adj |-> <<>>]
  /\ ingestPending = <<>>
  /\ dropped = 0

TravIdle ==
  /\ travHop = 0
  /\ travVisited = {}
  /\ travFrontier = <<>>
  /\ travRelIds = <<>>
  /\ travSeenRels = {}
  /\ travResult = <<>>
  /\ travExpanded = <<>>
  /\ travLog = <<>>
  /\ travSkipped = <<>>

HsIdle ==
  /\ hsPc = "idle"
  /\ hsMaxHops = 0
  /\ hsMaxChunks = 0
  /\ hsVector = <<>>
  /\ hsEntityIds = <<>>
  /\ hsResult = <<>>
  /\ hsOutcome = "none"
  /\ TravIdle

WriteIdle == wrPhase = "idle" /\ wrOrder = <<>> /\ wrPos = 0 /\ wrSnapshot = <<>>

NoCheckpoint == [written |-> FALSE]

GraphIdle ==
  /\ grPc = "idle"
  /\ grRun = 0
  /\ grStart = 0
  /\ grW = 0
  /\ grResults = <<>>
  /\ grProcessed = 0
  /\ grErrors = 0
  /\ grTotalEntities = 0
  /\ grTotalRelationships = 0
  /\ grCheckpoint = NoCheckpoint
  /\ grCompleted1 = {}
  /\ grHandled2 = {}
  /\ grFailedWindows = {}
  /\ grInjected = 0
  /\ grErrorWindows = {}

BuildIdle == WriteIdle /\ GraphIdle

QueryIdle == qbAnalysis = NullAnalysis /\ qbQueries = <<>> /\ qbPc = "idle"

ExtractIdle == exPc = <<>> /\ exRound = <<>> /\ exCalls = <<>>

GroupIdle == gcChunks = <<>> /\ gcGroups = <<>> /\ gcPc = "idle"

ScriptIdle == ExtractIdle /\ GroupIdle

LibIdle == RankIdle /\ StoreIdle /\ HsIdle /\ BuildIdle /\ QueryIdle /\ ScriptIdle

pipeVars == <<pc, useGraphRAG, rawText, analysis, scopeAssessment, queries, indexAnswer, qstate,
              rawResultsNested, refs, criticalReasons, textStarted, generatedReviewText,
              events, calls, streamed, genText, outcome>>

vars == <<pipeVars, libVars>>

NoScope ==
  [isOutOfScope |-> FALSE, nonConstructionSignals |-> <<>>, constructionSignals |-> <<>>,
   hasStructuredConstructionEvidence |-> FALSE, outOfScopeScore |-> 0, inScopeScore |-> 0]

Init ==
  /\ pc = "request"
  /\ useGraphRAG \in BOOLEAN
  /\ rawText = ""
  /\ analysis = NullAnalysis
  /\ scopeAssessment = NoScope
  /\ queries = <<>>
  /\ indexAnswer = <<>>
  /\ qstate = <<>>
  /\ rawResultsNested = <<>>
  /\ refs = <<>>
  /\ criticalReasons = <<>>
  /\ textStarted = FALSE
  /\ generatedReviewText = ""
  /\ events = <<>>
  /\ calls = [extract |-> 0, analyze |-> 0, search |-> 0, generate |-> 0]
  /\ streamed = 0
  /\ genText = ""
  /\ outcome = "none"
  /\ LibIdle

\* the text of the response: the concatenated text deltas
RECURSIVE DeltaText(_)
DeltaText(evs) ==
  IF evs = <<>> THEN ""
  ELSE (IF Head(evs).type = "text-delta" THEN Head(evs).text ELSE "") \o DeltaText(Tail(evs))

ResponseText == DeltaText(events)

\* the verdict badge the chat page shows for the response
Verdict == getVerdictInfo(ResponseText)

\* the stream is closed with the events evs
Finish(evs, how) ==
  /\ events' = evs
  /\ outcome' = how
  /\ pc' = "done"

\* execute: start of the stream up to the call of extractPDF
Start ==
  /\ UNCHANGED libVars
  /\ pc = "request"
  /\ events' = <<Event("start", "", ""), Event("start-step", "", ""),
                 StageEvent("uploaded"), StageEvent("extracting")>>
  /\ calls' = [calls EXCEPT !.extract = @ + 1]
  /\ pc' = "extracting"
  /\ UNCHANGED <<useGraphRAG, rawText, analysis, scopeAssessment, queries, indexAnswer, qstate,
                 rawResultsNested, refs, criticalReasons, textStarted, generatedReviewText,
                 streamed, genText, outcome>>

\* extractPDF resolves; analyzeSubmittalContent is called
ExtractOk ==
  /\ UNCHANGED libVars
  /\ pc = "extracting"
  /\ \E pageText \in PageTexts : rawText' = PageRawText(pageText)
  /\ events' = Append(events, StageEvent("analyzing"))
  /\ calls' = [calls EXCEPT !.analyze = @ + 1]
  /\ pc' = "analyzing"
  /\ UNCHANGED <<useGraphRAG, analysis, scopeAssessment, queries, indexAnswer, qstate,
                 rawResultsNested, refs, criticalReasons, textStarted, generatedReviewText,
                 streamed, genText, outcome>>

ExtractFail_retries ==
  /\ UNCHANGED libVars
  /\ pc = "extracting"
  /\ calls.extract < 3
  /\ calls' = [calls EXCEPT !.extract = @ + 1]
  /\ UNCHANGED <<pc, useGraphRAG, rawText, analysis, scopeAssessment, queries, indexAnswer, qstate,
                 rawResultsNested, refs, criticalReasons, textStarted, generatedReviewText,
                 events, streamed, genText, outcome>>

\* extractPDF rejects: the inner catch writes the failure report and returns
ExtractFail ==
  /\ UNCHANGED libVars
  /\ pc = "extracting"
  /\ Finish(events \o <<StageEvent("drafting")>>
              \o writeReportToStream(EXTRACTION_FAILURE_TEMPLATE, <<>>) \o FinishEvents,
            "extraction_failed")
  /\ UNCHANGED <<useGraphRAG, rawText, analysis, scopeAssessment, queries, indexAnswer, qstate,
                 rawResultsNested, refs, criticalReasons, textStarted, generatedReviewText,
                 calls, streamed, genText>>

\* if (scopeAssessment.isOutOfScope)
OutOfScopeBranch_never(sa) == FALSE

OutOfScopeBranch(sa) == sa.isOutOfScope

\* if (refs.length === 0)
EmptyEvidenceBranch_never(rs) == FALSE

EmptyEvidenceBranch(rs) == Len(rs) = 0

\* the code after analyzeSubmittalContent settles with `a` (null when it
\* rejected): the scope gate, then either the out-of-scope report or the
\* fan-out of the retrieval queries
ScopeGate(a) ==
  \E sa \in {assessDocumentScope(a, rawText)} :
    /\ UNCHANGED libVars
    /\ analysis' = a
    /\ scopeAssessment' = sa
    /\ IF OutOfScopeBranch(sa)
         THEN LET signalSummary ==
                    IF Len(sa.nonConstructionSignals) > 0
                      THEN Join(sa.nonConstructionSignals, ", ")
                      ELSE "non-construction indicators"
              IN /\ Finish(events \o <<StageEvent("drafting")>>
                             \o writeReportToStream(OUT_OF_SCOPE_TEMPLATE(signalSummary), <<>>)
                             \o FinishEvents,
                           "out_of_scope")
                 /\ UNCHANGED <<queries, indexAnswer, qstate, rawResultsNested, calls>>
         ELSE \E qs \in {buildDeterministicQueries(a)} :
                 /\ events' = Append(events, StageEvent("retrieving"))
                 /\ queries' = qs
                 /\ indexAnswer' = [i \in 1..Len(qs) |-> IF useGraphRAG THEN hybridSearch(qs[i])
                                                                         ELSE searchQCS(qs[i])]
                 /\ qstate' = [i \in 1..Len(qs) |-> "pending"]
                 /\ rawResultsNested' = [i \in 1..Len(qs) |-> <<>>]
                 /\ calls' = [calls EXCEPT !.search = @ + Len(qs)]
                 /\ pc' = "retrieving"
                 /\ UNCHANGED outcome
    /\ UNCHANGED <<useGraphRAG, rawText, refs, criticalReasons, textStarted,
                   generatedReviewText, streamed, genText>>

\* analyzeSubmittalContent resolves
AnalyzeOk == pc = "analyzing" /\ \E a \in Analyses : ScopeGate(a)

AnalyzeFail_fatal ==
  /\ UNCHANGED libVars
  /\ pc = "analyzing"
  /\ Finish(events \o <<StageEvent("drafting")>>
              \o writeReportToStream(EXTRACTION_FAILURE_TEMPLATE, <<>>) \o FinishEvents,
            "analysis_failed")
  /\ UNCHANGED <<useGraphRAG, rawText, analysis, scopeAssessment, queries, indexAnswer, qstate,
                 rawResultsNested, refs, criticalReasons, textStarted, generatedReviewText,
                 calls, streamed, genText>>

\* analyzeSubmittalContent rejects: logged, analysis stays null
AnalyzeFail == pc = "analyzing" /\ ScopeGate(NullAnalysis)

AllSettled == \A i \in 1..Len(qstate) : qstate[i] # "pending"

QueryOk_completion_order(i) ==
  /\ UNCHANGED libVars
  /\ pc = "retrieving"
  /\ qstate[i] = "pending"
  /\ qstate' = [qstate EXCEPT ![i] = "ok"]
  /\ rawResultsNested' =
       [rawResultsNested EXCEPT
          ![Cardinality({j \in 1..Len(qstate) : qstate[j] # "pending"}) + 1] = indexAnswer[i]]
  /\ UNCHANGED <<pc, useGraphRAG, rawText, analysis, scopeAssessment, queries, indexAnswer, refs,
                 criticalReasons, textStarted, generatedReviewText, events, calls, streamed,
                 genText, outcome>>

\* query i of the fan-out resolves with what the index answers to it
\* (indexAnswer[i]: the value of hybridSearch or searchQCS for queries[i])
QueryOk(i) ==
  /\ UNCHANGED libVars
  /\ pc = "retrieving"
  /\ qstate[i] = "pending"
  /\ qstate' = [qstate EXCEPT ![i] = "ok"]
  /\ rawResultsNested' = [rawResultsNested EXCEPT ![i] = indexAnswer[i]]
  /\ UNCHANGED <<pc, useGraphRAG, rawText, analysis, scopeAssessment, queries, indexAnswer, refs,
                 criticalReasons, textStarted, generatedReviewText, events, calls, streamed,
                 genText, outcome>>

QueryFail_rejects_all(i) ==
  /\ UNCHANGED libVars
  /\ pc = "retrieving"
  /\ qstate[i] = "pending"
  /\ qstate' = [j \in 1..Len(qstate) |-> "failed"]
  /\ rawResultsNested' = [j \in 1..Len(qstate) |-> <<>>]
  /\ UNCHANGED <<pc, useGraphRAG, rawText, analysis, scopeAssessment, queries, indexAnswer, refs,
                 criticalReasons, textStarted, generatedReviewText, events, calls, streamed,
                 genText, outcome>>

\* query i of the fan-out throws: caught in the mapper, [] for this query
QueryFail(i) ==
  /\ UNCHANGED libVars
  /\ pc = "retrieving"
  /\ qstate[i] = "pending"
  /\ qstate' = [qstate EXCEPT ![i] = "failed"]
  /\ rawResultsNested' = [rawResultsNested EXCEPT ![i] = <<>>]
  /\ UNCHANGED <<pc, useGraphRAG, rawText, analysis, scopeAssessment, queries, indexAnswer, refs,
                 criticalReasons, textStarted, generatedReviewText, events, calls, streamed,
                 genText, outcome>>

\* Promise.all resolves: filter, rank, critical reasons; then the empty-
\* evidence report, or the source events and the call of streamText
JoinResults ==
  /\ UNCHANGED libVars
  /\ pc = "retrieving"
  /\ AllSettled
  /\ \E rs \in {rankAndSelect(filterResults(Flat(rawResultsNested)), MAX_TOTAL_REFS, MAX_TOTAL_GRAPH_REFS)} :
     \E cr \in {detectCriticalReasons(analysis)} :
       /\ refs' = rs
       /\ criticalReasons' = cr
       /\ IF EmptyEvidenceBranch(rs)
            THEN /\ Finish(events \o <<StageEvent("drafting")>>
                             \o writeReportToStream(EMPTY_EVIDENCE_TEMPLATE(cr), <<>>)
                             \o FinishEvents,
                           "empty_evidence")
                 /\ UNCHANGED calls
            ELSE /\ events' = events \o <<StageEvent("drafting")>> \o SourceEvents(rs)
                 /\ calls' = [calls EXCEPT !.generate = @ + 1]
                 /\ pc' = "generating"
                 /\ UNCHANGED outcome
  /\ qstate' = <<>>
  /\ rawResultsNested' = <<>>
  /\ UNCHANGED <<useGraphRAG, rawText, analysis, scopeAssessment, queries, indexAnswer, textStarted,
                 generatedReviewText, streamed, genText>>

\* one part of reportResult.fullStream is forwarded
StreamPart(part) ==
  /\ UNCHANGED libVars
  /\ pc = "generating"
  /\ streamed < MaxGenParts
  /\ streamed' = streamed + 1
  /\ IF part.type = "text-delta"
       THEN /\ events' = events
                  \o (IF textStarted THEN <<>> ELSE <<Event("text-start", "text-1", "")>>)
                  \o <<Event("text-delta", "text-1", part.text)>>
            /\ textStarted' = TRUE
            /\ generatedReviewText' = generatedReviewText \o part.text
            /\ genText' = genText \o part.text
       ELSE /\ events' = Append(events, Event(part.type, "reasoning-1", part.text))
            /\ UNCHANGED <<textStarted, generatedReviewText, genText>>
  /\ UNCHANGED <<pc, useGraphRAG, rawText, analysis, scopeAssessment, queries, indexAnswer, qstate,
                 rawResultsNested, refs, criticalReasons, calls, outcome>>

FinishReport_restarts_text(evs, started, text) ==
  LET citationText == IF isOutOfScopeReviewText(text) THEN "" ELSE buildCitationSection(refs)
  IN evs \o <<Event("text-start", "text-1", "")>>
         \o (IF citationText # "" THEN <<Event("text-delta", "text-1", "\n\n" \o citationText)>> ELSE <<>>)
         \o <<Event("text-end", "text-1", "")>>
         \o FinishEvents

\* the code after the generation try/catch: citation section and end of stream
FinishReport(evs, started, text) ==
  LET citationText == IF isOutOfScopeReviewText(text) THEN "" ELSE buildCitationSection(refs)
  IN evs \o (IF started THEN <<>> ELSE <<Event("text-start", "text-1", "")>>)
         \o (IF citationText # "" THEN <<Event("text-delta", "text-1", "\n\n" \o citationText)>> ELSE <<>>)
         \o <<Event("text-end", "text-1", "")>>
         \o FinishEvents

\* the generation stream ends normally
StreamEnd ==
  /\ UNCHANGED libVars
  /\ pc = "generating"
  /\ Finish(FinishReport(events, textStarted, generatedReviewText), "generated")
  /\ textStarted' = TRUE
  /\ UNCHANGED <<useGraphRAG, rawText, analysis, scopeAssessment, queries, indexAnswer, qstate,
                 rawResultsNested, refs, criticalReasons, generatedReviewText, calls, streamed,
                 genText>>

\* streamText or its stream throws: the catch appends the fallback body
StreamFail ==
  /\ UNCHANGED libVars
  /\ pc = "generating"
  /\ generatedReviewText' = generatedReviewText \o GENERATION_FALLBACK_TEMPLATE
  /\ Finish(FinishReport(events
                            \o (IF textStarted THEN <<>> ELSE <<Event("text-start", "text-1", "")>>)
                            \o <<Event("text-delta", "text-1", GENERATION_FALLBACK_TEMPLATE)>>,
                          TRUE, generatedReviewText'),
            "generation_failed")
  /\ textStarted' = TRUE
  /\ UNCHANGED <<useGraphRAG, rawText, analysis, scopeAssessment, queries, indexAnswer, qstate,
                 rawResultsNested, refs, criticalReasons, calls, streamed, genText>>

\* an exception outside the inner try blocks (in the scope gate, or in the
\* code that follows the join): the outer catch writes the internal-error report
InternalError ==
  /\ UNCHANGED libVars
  /\ \/ pc = "analyzing"
     \/ pc = "retrieving" /\ AllSettled
  /\ Finish(events \o <<StageEvent("drafting")>>
              \o writeReportToStream(INTERNAL_ERROR_TEMPLATE, <<>>) \o FinishEvents,
            "internal_error")
  /\ qstate' = <<>>
  /\ rawResultsNested' = <<>>
  /\ UNCHANGED <<useGraphRAG, rawText, analysis, scopeAssessment, queries, indexAnswer, refs,
                 criticalReasons, textStarted, generatedReviewText, calls, streamed, genText>>

Next ==
  \/ Start
  \/ ExtractOk
  \/ ExtractFail
  \/ AnalyzeOk
  \/ AnalyzeFail
  \/ \E i \in 1..Len(qstate) : QueryOk(i)
  \/ \E i \in 1..Len(qstate) : QueryFail(i)
  \/ JoinResults
  \/ \E part \in StreamParts : StreamPart(part)
  \/ StreamEnd
  \/ StreamFail
  \/ InternalError

Spec == Init /\ [][Next]_vars

\* ------------------------------------------------------------------------
\* Properties of the PDF review
\* ------------------------------------------------------------------------
SourceEventCount == Cardinality({i \in 1..Len(events) : events[i].type = "source-url"})

HasCitationSection == Includes(ResponseText, "### CITATIONS")

NoCitations == SourceEventCount = 0 /\ ~HasCitationSection

VERDICT_HEADING == "### VERDICT"
VerdictWords == {"APPROVED", "REJECTED", "NEEDS REVISION"}

VerdictHeadings(text) == {i \in 1..Len(text) : LitAt(text, VERDICT_HEADING, i)}

\* the text opens with the verdict heading followed by one verdict word on
\* its own line, and has no second verdict heading
WellFormedVerdictDocument(text) ==
  /\ \E v \in VerdictWords : LitAt(text, VERDICT_HEADING \o "\n" \o v \o "\n", 1)
  /\ Cardinality(VerdictHeadings(text)) = 1

\* the part of the response text written by pipeline code: what follows the
\* text forwarded from the generation stream
PipelineText == SubSeq(ResponseText, Len(genText) + 1, Len(ResponseText))

TemplateOutcomes == {"extraction_failed", "out_of_scope", "empty_evidence", "internal_error"}
GenerationOutcomes == {"generated", "generation_failed"}

\* C1: every response written by pipeline code (the extraction-failure,
\* out-of-scope, empty-evidence, internal-error and generation-fallback
\* templates) carries NEEDS REVISION or REJECTED, and a response shows
\* APPROVED only if generation was called with a non-empty evidence set and
\* the generation output itself carries APPROVED.
C1_ApprovedOnlyFromGeneration ==
  pc = "done" =>
    /\ LitAt(ResponseText, genText, 1)
    /\ outcome \in TemplateOutcomes =>
         genText = "" /\ Verdict \in {"NEEDS REVISION", "REJECTED"}
    /\ outcome = "generation_failed" => getVerdictInfo(PipelineText) = "NEEDS REVISION"
    /\ outcome = "generated" => getVerdictInfo(PipelineText) = "none"
    /\ Verdict = "APPROVED" =>
         /\ calls.generate = 1
         /\ Len(refs) > 0
         /\ getVerdictInfo(genText) = "APPROVED"

C1_Witness == pc = "done" /\ outcome = "generated" /\ Verdict = "APPROVED" /\ Len(refs) > 0

\* C2 (as claimed): when detectCriticalReasons returns a non-empty list and
\* the evidence set is non-empty, the response verdict is NEEDS REVISION
\* whatever the generation stream emits.
C2_ForcedVerdictOverridesGeneration ==
  (pc = "done" /\ outcome \in GenerationOutcomes /\ Len(criticalReasons) > 0 /\ Len(refs) > 0)
    => Verdict = "NEEDS REVISION"

\* C3 (as claimed): when generation fails, before or after forwarded tokens,
\* the final document is the fixed fallback template (with the citation
\* section) and its verdict is NEEDS REVISION, never APPROVED.
C3_GenerationFailureYieldsFallback ==
  (pc = "done" /\ outcome = "generation_failed") =>
    /\ ResponseText \in {GENERATION_FALLBACK_TEMPLATE,
                         GENERATION_FALLBACK_TEMPLATE \o "\n\n" \o buildCitationSection(refs)}
    /\ Verdict = "NEEDS REVISION"

\* C4 (as claimed): every finished PDF review, whichever stage failed and
\* also when generation ended without text, carries a well-formed verdict
\* document with exactly one verdict; no error event reaches the caller.
C4_AlwaysOneWellFormedVerdict ==
  /\ \A i \in 1..Len(events) : events[i].type # "error"
  /\ pc = "done" => WellFormedVerdictDocument(ResponseText)

\* C5: when the scope gate declares the document out-of-scope, the response
\* is REJECTED, has no citation entries and no citation section, and the run
\* ends without any retrieval query or generation call.
C5_OutOfScopeRejectedWithoutCitations ==
  scopeAssessment.isOutOfScope =>
    /\ pc = "done"
    /\ outcome = "out_of_scope"
    /\ Verdict = "REJECTED"
    /\ NoCitations
    /\ calls.search = 0
    /\ calls.generate = 0
    /\ queries = <<>>

C5_Witness ==
  pc = "done" /\ outcome = "out_of_scope" /\ scopeAssessment.isOutOfScope /\ Verdict = "REJECTED"

\* an analysis with the confidentiality title and no materials, test
\* results, certificates or standards has passed the scope gate
ConfidentialityCase ==
  /\ ~analysis.isNull
  /\ analysis.title = TITLE_CONFIDENTIALITY
  /\ analysis.materials = <<>>
  /\ analysis.testResults = <<>>
  /\ analysis.certificates = <<>>
  /\ analysis.standardsCited = <<>>

RejectedWithoutCitations ==
  /\ scopeAssessment.isOutOfScope
  /\ pc = "done"
  /\ Verdict = "REJECTED"
  /\ NoCitations

\* C6 (as claimed): for every analysis titled "Employee Confidentiality
\* Agreement" with empty materials, test results, certificates and
\* standards, whatever the other fields and the raw text, the scope gate
\* returns isOutOfScope = true and the pipeline emits REJECTED with zero
\* citations.
C6_ConfidentialityAlwaysRejected == ConfidentialityCase => RejectedWithoutCitations

\* C6 (amended): the same, for analyses that also have no DRS items.
C6_ConfidentialityWithoutDrsRejected ==
  (ConfidentialityCase /\ analysis.drsItems = <<>>) => RejectedWithoutCitations

C6_Witness ==
  /\ ConfidentialityCase
  /\ analysis.drsItems = <<>>
  /\ analysis.documentType = "method_statement"
  /\ rawText = PageRawText(PAGE_METHOD_STATEMENT)
  /\ RejectedWithoutCitations

\* C7: generation is only ever called with a non-empty evidence set; a run
\* whose final evidence set is empty ends with NEEDS REVISION and no
\* citations, without a generation call; and a join after every query of
\* the fan-out failed is such a run.
C7_EmptyEvidenceState ==
  /\ (pc = "generating" \/ outcome \in GenerationOutcomes) => Len(refs) > 0
  /\ calls.generate > 0 => Len(refs) > 0
  /\ outcome = "empty_evidence" =>
       /\ pc = "done"
       /\ Len(refs) = 0
       /\ Verdict = "NEEDS REVISION"
       /\ NoCitations
       /\ calls.generate = 0

C7_AllFailedStep ==
  (/\ pc = "retrieving"
   /\ \A i \in 1..Len(qstate) : qstate[i] = "failed"
   /\ pc' # "retrieving"
   /\ outcome' # "internal_error")
    => (outcome' = "empty_evidence" /\ refs' = <<>> /\ calls'.generate = 0)

C7_EmptyEvidenceFailsClosed == [](C7_EmptyEvidenceState) /\ [][C7_AllFailedStep]_vars

C7_Witness ==
  pc = "done" /\ outcome = "empty_evidence" /\ Len(queries) = 6 /\ calls.search = 6

\* C8: extraction is attempted once; when it fails the run ends with a
\* NEEDS REVISION document without citations, and analysis, the scope gate,
\* retrieval and generation are not run.
C8_ExtractionFailureIsFatal ==
  /\ calls.extract <= 1
  /\ outcome = "extraction_failed" =>
       /\ pc = "done"
       /\ calls = [extract |-> 1, analyze |-> 0, search |-> 0, generate |-> 0]
       /\ scopeAssessment = NoScope
       /\ queries = <<>>
       /\ Verdict = "NEEDS REVISION"
       /\ ResponseText = EXTRACTION_FAILURE_TEMPLATE
       /\ NoCitations

C8_Witness == pc = "done" /\ outcome = "extraction_failed" /\ calls.extract = 1

\* the analysis call has settled and the scope gate has run
AfterAnalysis == calls.analyze = 1 /\ pc # "analyzing" /\ outcome # "internal_error"

SettledResults == [i \in 1..Len(qstate) |-> IF qstate[i] = "ok" THEN indexAnswer[i] ELSE <<>>]

C10_SlotsState ==
  pc = "retrieving" =>
    /\ Len(qstate) = Len(queries)
    /\ \A i \in 1..Len(qstate) :
         rawResultsNested[i] = IF qstate[i] = "ok" THEN indexAnswer[i] ELSE <<>>

C10_FailureStep ==
  \A i \in 1..Len(qstate) :
    (pc = "retrieving" /\ qstate[i] = "pending" /\ Len(qstate') = Len(qstate) /\ qstate'[i] = "failed")
      => /\ pc' = "retrieving"
         /\ outcome' = outcome
         /\ events' = events
         /\ \A j \in 1..Len(qstate) : j # i => qstate'[j] = qstate[j]

C10_JoinStep ==
  (pc = "retrieving" /\ (pc' = "generating" \/ outcome' = "empty_evidence"))
    => /\ AllSettled
       /\ refs' = rankAndSelect(filterResults(Flat(SettledResults)), MAX_TOTAL_REFS, MAX_TOTAL_GRAPH_REFS)

\* C10: a failing query yields an empty result for that query only: the
\* other queries stay in flight and settle on their own, each succeeded
\* query contributes what the index answered, and filtering and ranking run
\* on the joined results only once every query has settled.
C10_QueryFailureIsIsolated ==
  [](C10_SlotsState) /\ [][C10_FailureStep]_vars /\ [][C10_JoinStep]_vars

C10_Witness ==
  /\ pc = "retrieving"
  /\ AllSettled
  /\ \E i, j \in 1..Len(qstate) :
       /\ qstate[i] = "failed" /\ indexAnswer[i] # <<>>
       /\ qstate[j] = "ok" /\ filterResults(rawResultsNested[j]) # <<>>

\* the generated text carries the verdict REJECTED and names the document
\* as out of scope
OutOfScopeRejection(text) ==
  /\ getVerdictInfo(text) = "REJECTED"
  /\ TestCS(OUT_OF_SCOPE_PATTERN, toLowerCase(text))

\* what pipeline code writes after the generated text
AfterGeneratedText == SubSeq(ResponseText, Len(generatedReviewText) + 1, Len(ResponseText))

References(refList) == [i \in 1..Len(refList) |-> refList[i].reference]

\* C21 (as claimed): on the generation path the citation section is written
\* by pipeline code after the generated text and lists exactly the
\* references of the final evidence list in evidence order; it is omitted
\* if and only if the generated text is itself an out-of-scope rejection.
C21_CitationSectionFromEvidence ==
  (pc = "done" /\ outcome \in GenerationOutcomes) =>
    /\ LitAt(ResponseText, generatedReviewText, 1)
    /\ OutOfScopeRejection(generatedReviewText) <=> AfterGeneratedText = ""
    /\ AfterGeneratedText # "" =>
         /\ LitAt(AfterGeneratedText, "\n\n### CITATIONS\n", 1)
         /\ parseCitationSection(AfterGeneratedText) = References(refs)

\* the six stages of a PDF review, in order
REVIEW_STAGES == <<"uploaded", "extracting", "analyzing", "scope_gate", "retrieving", "drafting">>

\* the progress signals the caller has received, in order of arrival
StageSignals ==
  LET signals == SelectSeq(events, LAMBDA e : e.type = "data-review-stage")
  IN [i \in 1..Len(signals) |-> signals[i].id]

\* the run has entered the stage: its code has started to execute
StageEntered(stage) ==
  LET gated == pc \in {"retrieving", "generating"}
                 \/ outcome \in {"out_of_scope", "empty_evidence"} \cup GenerationOutcomes
  IN CASE stage \in {"uploaded", "extracting"} -> pc # "request"
       [] stage = "analyzing" -> calls.analyze > 0
       [] stage = "scope_gate" -> gated
       [] stage = "retrieving" -> gated /\ outcome # "out_of_scope"
       [] stage = "drafting" -> pc \in {"generating", "done"}

\* the entered stages among the stages listed, each signalled once and the
\* signals in stage order
SignalledInOrder(stages) ==
  /\ \A k \in 1..Len(stages) :
       StageEntered(stages[k]) =>
         Cardinality({i \in 1..Len(StageSignals) : StageSignals[i] = stages[k]}) = 1
  /\ \A i, j \in 1..Len(StageSignals) :
       \A k, l \in 1..Len(stages) :
         (StageSignals[i] = stages[k] /\ StageSignals[j] = stages[l] /\ k < l) => i < j

\* C22 (as claimed): each of the six stages Uploaded, Extracting, Analyzing,
\* Scope Gate, Retrieving, Drafting that a PDF review enters emits exactly
\* one progress signal, and the signals reach the caller in stage order.
C22_EveryStageSignalledInOrder == SignalledInOrder(REVIEW_STAGES)

\* rule (a): the title of the analysis matches the non-construction title
\* pattern and the gate found no structured construction evidence
ScopeRuleTitle ==
  /\ ~analysis.isNull
  /\ Test(TITLE_NON_CONSTRUCTION_PATTERN, analysis.title)
  /\ ~scopeAssessment.hasStructuredConstructionEvidence

\* rule (b): the out-of-scope score reaches 5 and exceeds the in-scope score
\* by more than 1
ScopeRuleScore ==
  /\ scopeAssessment.outOfScopeScore >= 5
  /\ scopeAssessment.outOfScopeScore > scopeAssessment.inScopeScore + 1

\* C24: assessDocumentScope returns isOutOfScope = true exactly when (a) the
\* title matches a non-construction pattern and there is no structured
\* construction evidence, or (b) the out-of-scope score exceeds the fixed
\* threshold and exceeds the in-scope score by more than the fixed margin;
\* in every other case it returns false.
C24_OutOfScopeExactlyByTitleOrScore ==
  StageEntered("scope_gate") =>
    (scopeAssessment.isOutOfScope <=> (ScopeRuleTitle \/ ScopeRuleScore))

\* the gate has rejected one document by the title rule alone, or has seen
\* the title match overruled by structured evidence
C24_Witness ==
  /\ StageEntered("scope_gate")
  /\ scopeAssessment.isOutOfScope
  /\ ScopeRuleTitle
  /\ ~ScopeRuleScore

\* C39: assessDocumentScope never declares out of scope a document whose
\* analysis has a known document type (not "other") and structured
\* construction evidence, whatever its title and however many
\* non-construction signals match.
C39_KnownTypeWithEvidenceInScope ==
  (/\ StageEntered("scope_gate")
   /\ ~analysis.isNull
   /\ analysis.documentType # "other"
   /\ scopeAssessment.hasStructuredConstructionEvidence)
    => ~scopeAssessment.isOutOfScope

\* the gate let a document of known type with DRS items pass although its
\* title matches the non-construction pattern and at least three
\* non-construction signals match
C39_Witness ==
  /\ StageEntered("scope_gate")
  /\ ~analysis.isNull
  /\ analysis.documentType # "other"
  /\ Len(analysis.drsItems) > 0
  /\ scopeAssessment.hasStructuredConstructionEvidence
  /\ Test(TITLE_NON_CONSTRUCTION_PATTERN, analysis.title)
  /\ Len(scopeAssessment.nonConstructionSignals) >= 3
  /\ ~scopeAssessment.isOutOfScope

\* the titles of the citation entries sent to the caller, in order
SourceTitles ==
  LET sources == SelectSeq(events, LAMBDA e : e.type = "source-url")
  IN [i \in 1..Len(sources) |-> sources[i].text]

\* the references listed in the citation section of the text; none when the
\* text has no citation section
CitedReferences(text) ==
  LET at == {i \in 1..Len(text) : LitAt(text, "### CITATIONS\n", i)}
  IN IF at = {} THEN <<>>
     ELSE parseCitationSection(SubSeq(text, CHOOSE i \in at : \A j \in at : j <= i, Len(text)))

\* C35 (as claimed): in every PDF review response the citation entries sent
\* to the caller as source events are exactly the references listed in the
\* citation section of the response, in the same order; a response without
\* a citation section carries no citation entries.
C35_SourceEventsMatchCitationSection ==
  pc = "done" =>
    /\ SourceTitles = CitedReferences(ResponseText)
    /\ ~HasCitationSection => SourceEventCount = 0

\* the evidence list as a function of the per-query results in query order
EvidenceOf(perQuery) ==
  rankAndSelect(filterResults(Flat(perQuery)), MAX_TOTAL_REFS, MAX_TOTAL_GRAPH_REFS)

\* what query i of the list contributes: the answer of the index to
\* queries[i], or nothing when the query failed
PerQueryResults ==
  [i \in 1..Len(queries) |->
     IF qstate[i] = "ok"
       THEN (IF useGraphRAG THEN hybridSearch(queries[i]) ELSE searchQCS(queries[i]))
       ELSE <<>>]

C37_JoinInQueryOrder ==
  (pc = "retrieving" /\ pc' # "retrieving" /\ outcome' # "internal_error")
    => /\ AllSettled
       /\ Len(qstate) = Len(queries)
       /\ refs' = EvidenceOf(PerQueryResults)

C37_SettleInOwnSlot ==
  \A i \in 1..Len(qstate) :
    (pc = "retrieving" /\ pc' = "retrieving" /\ qstate[i] = "pending" /\ qstate'[i] # "pending")
      => \A j \in 1..Len(qstate) : j # i => rawResultsNested'[j] = rawResultsNested[j]

\* C37: the final evidence list of a PDF review depends only on the
\* per-query results taken in query-list order: whatever the order in which
\* the concurrent queries settle, each one fills its own place and the join
\* hands filterResults and rankAndSelect the results of query 1, then of
\* query 2, and so on.
C37_EvidenceIndependentOfCompletionOrder ==
  [][C37_JoinInQueryOrder]_vars /\ [][C37_SettleInOwnSlot]_vars

\* a later query of the list has answered while an earlier one, with
\* another answer, is still in flight
C37_Witness ==
  /\ pc = "retrieving"
  /\ \E i, j \in 1..Len(qstate) :
       /\ i < j
       /\ qstate[i] = "pending" /\ qstate[j] = "ok"
       /\ filterResults(indexAnswer[i]) # <<>>
       /\ filterResults(rawResultsNested[j]) # <<>>
       /\ indexAnswer[i] # indexAnswer[j]
       /\ \E k \in 1..Len(qstate) : qstate[k] = "failed"

\* the positions of the events of a type
EventsOfType(type) == {i \in 1..Len(events) : events[i].type = type}

\* C36: on every path of a PDF review the event stream is well framed:
\* 'start' and 'start-step' come first, every citation source entry
\* precedes 'text-start', there is exactly one 'text-start', every
\* 'text-delta' lies between it and the one 'text-end', and 'finish-step'
\* then 'finish' are the last events, each emitted once.
C36_StreamWellFramed ==
  /\ pc # "request" => events[1].type = "start" /\ events[2].type = "start-step"
  /\ \A type \in {"start", "start-step", "text-start", "text-end", "finish-step", "finish"} :
       Cardinality(EventsOfType(type)) <= 1
  /\ \A i \in EventsOfType("source-url") : \A j \in EventsOfType("text-start") : i < j
  /\ \A d \in EventsOfType("text-delta") :
       /\ \E j \in EventsOfType("text-start") : j < d
       /\ \A j \in EventsOfType("text-end") : d < j
  /\ \A type \in {"text-end", "finish-step", "finish"} : EventsOfType(type) # {} => pc = "done"
  /\ pc = "done" =>
       /\ EventsOfType("text-start") # {}
       /\ \A i \in EventsOfType("text-start") : \A j \in EventsOfType("text-end") : i < j
       /\ Len(events) >= 3
       /\ events[Len(events) - 2].type = "text-end"
       /\ events[Len(events) - 1].type = "finish-step"
       /\ events[Len(events)].type = "finish"

\* a generated review: citation entries, forwarded text, the citation
\* section as the last delta
C36_Witness ==
  /\ pc = "done"
  /\ outcome = "generated"
  /\ genText # ""
  /\ Cardinality(EventsOfType("source-url")) >= 2
  /\ Cardinality(EventsOfType("text-delta")) >= 2

TypeOK == pc \in {"request", "extracting", "analyzing", "retrieving", "generating", "done"}
\* ------------------------------------------------------------------------
\* filterResults and rankAndSelect on joined result sets
\* ------------------------------------------------------------------------
NumRankKeys == MAX_TOTAL_REFS + 1
MaxRankRows == 8

\* the (section, part, clause) of the i-th clause of the joined results
RankKey(i) == <<"5", ToString((i % 3) + 1), "2." \o ToString(i)>>

TITLE_TOC == "General ........ 14"

\* a result row of clause i: a vector hit at a similarity score, a graph
\* row at the synthetic score, or a vector hit on a table-of-contents line
RankRow(i, kind) ==
  LET k == RankKey(i)
  IN CASE kind = "v90" -> Row(k[1], k[2], k[3], "Materials", 90, FALSE, CONTENT_OK)
       [] kind = "v70" -> Row(k[1], k[2], k[3], "Materials", 70, FALSE, CONTENT_OK)
       [] kind = "v40" -> Row(k[1], k[2], k[3], "Materials", 40, FALSE, CONTENT_OK)
       [] kind = "g50" -> Row(k[1], k[2], k[3], "Materials", 50, TRUE, CONTENT_OK)
       [] kind = "vtoc" -> Row(k[1], k[2], k[3], TITLE_TOC, 95, FALSE, CONTENT_OK)

RankKinds(i) == IF i <= 4 THEN {"v90", "v70", "g50"} ELSE {"v40", "g50"}
RankDupKeys == {1, 2}
RankDupKinds == {"v90", "v70", "g50", "vtoc"}

\* the next row of the joined result set: a new clause, or, once every
\* clause has a row, a second row of one of the first clauses
RankAddRow ==
  /\ rankPc = "building"
  /\ Len(rankRows) < MaxRankRows
  /\ \E row \in IF Len(rankRows) < NumRankKeys
                  THEN {RankRow(Len(rankRows) + 1, kind) : kind \in RankKinds(Len(rankRows) + 1)}
                  ELSE {RankRow(i, kind) : i \in RankDupKeys, kind \in RankDupKinds} :
       rankRows' = Append(rankRows, row)
  /\ UNCHANGED <<rankFiltered, rankSelected, rankPc, rankMaxTotal, rankMaxGraph,
                 pipeVars, queryVars, scriptVars, storeVars, hsVars, travVars, buildVars>>

\* const filtered = filterResults(rawResults);
\* const refs = rankAndSelect(filtered, maxTotal, maxGraph);
RankApply ==
  /\ rankPc = "building"
  /\ \E filtered \in {filterResults(rankRows)} :
       /\ rankFiltered' = filtered
       /\ rankSelected' = selectedRows(filtered, rankMaxTotal, rankMaxGraph)
  /\ rankPc' = "ranked"
  /\ UNCHANGED <<rankRows, rankMaxTotal, rankMaxGraph, pipeVars, queryVars, scriptVars, storeVars, hsVars, travVars, buildVars>>

PipeIdle ==
  /\ pc = "request"
  /\ useGraphRAG = FALSE
  /\ rawText = ""
  /\ analysis = NullAnalysis
  /\ scopeAssessment = NoScope
  /\ queries = <<>>
  /\ indexAnswer = <<>>
  /\ qstate = <<>>
  /\ rawResultsNested = <<>>
  /\ refs = <<>>
  /\ criticalReasons = <<>>
  /\ textStarted = FALSE
  /\ generatedReviewText = ""
  /\ events = <<>>
  /\ calls = [extract |-> 0, analyze |-> 0, search |-> 0, generate |-> 0]
  /\ streamed = 0
  /\ genText = ""
  /\ outcome = "none"

InitRank ==
  /\ PipeIdle
  /\ QueryIdle
  /\ ScriptIdle
  /\ BuildIdle
  /\ rankRows = <<>>
  /\ rankFiltered = <<>>
  /\ rankSelected = <<>>
  /\ rankPc = "building"
  /\ rankMaxTotal = MAX_TOTAL_REFS
  /\ rankMaxGraph = MAX_TOTAL_GRAPH_REFS
  /\ StoreIdle
  /\ HsIdle

NextRank ==
  \/ RankAddRow
  \/ RankApply

SpecRank == InitRank /\ [][NextRank]_vars

KeyTriple(row) == <<row.sectionNumber, row.partNumber, row.clauseNumber>>

GraphCount(rows) == Cardinality({i \in 1..Len(rows) : rows[i].isGraph})

KeysOf(rows) == {KeyTriple(rows[i]) : i \in 1..Len(rows)}

\* C11: the evidence list built from a joined result set by filterResults
\* and rankAndSelect with caps 6 and 4 has at most 6 entries, at most 4
\* graph-origin entries, pairwise distinct (section, part, clause) keys, and
\* no graph-origin entry whose key is also the key of a vector-origin row
\* that survived filtering.
C11_EvidenceCappedAndDeduplicated ==
  rankPc = "ranked" =>
    /\ Len(rankSelected) <= 6
    /\ GraphCount(rankSelected) <= 4
    /\ \A i, j \in 1..Len(rankSelected) :
         i # j => KeyTriple(rankSelected[i]) # KeyTriple(rankSelected[j])
    /\ \A i \in 1..Len(rankSelected) :
         rankSelected[i].isGraph =>
           \A k \in 1..Len(rankFiltered) :
             ~rankFiltered[k].isGraph => KeyTriple(rankFiltered[k]) # KeyTriple(rankSelected[i])
    /\ \A i \in 1..Len(rankSelected) : \E k \in 1..Len(rankFiltered) : rankFiltered[k] = rankSelected[i]

\* more clauses than the total cap, more graph rows than the graph cap, and
\* a clause found both by a graph row and by a vector row
C11_Witness ==
  /\ rankPc = "ranked"
  /\ Cardinality(KeysOf(rankFiltered)) > 6
  /\ GraphCount(rankFiltered) > 4
  /\ \E i, k \in 1..Len(rankFiltered) :
       /\ rankFiltered[i].isGraph
       /\ ~rankFiltered[k].isGraph
       /\ KeyTriple(rankFiltered[i]) = KeyTriple(rankFiltered[k])
  /\ Len(rankSelected) = 6
  /\ GraphCount(rankSelected) = 4

\* the rows handed in are 6 rows of distinct clauses, 4 vector hits with
\* scores from 0.7 to 0.9 and 2 graph rows at the synthetic score
SixRowExample ==
  /\ Len(rankRows) = 6
  /\ rankFiltered = rankRows
  /\ Cardinality(KeysOf(rankRows)) = 6
  /\ GraphCount(rankRows) = 2
  /\ \A i \in 1..6 : IF rankRows[i].isGraph THEN rankRows[i].score = 50
                     ELSE rankRows[i].score \in 70..90

\* C12: rankAndSelect returns all vector-origin entries before all
\* graph-origin entries and, within each origin, in non-increasing score
\* order; for 6 rows of distinct keys, 4 vector and 2 graph at the synthetic
\* score, caps 6 and 4 return exactly those 6 rows in that order.
C12_VectorFirstThenScore ==
  rankPc = "ranked" =>
    /\ \A i, j \in 1..Len(rankSelected) :
         i < j =>
           /\ ~(rankSelected[i].isGraph /\ ~rankSelected[j].isGraph)
           /\ rankSelected[i].isGraph = rankSelected[j].isGraph
                => rankSelected[i].score >= rankSelected[j].score
    /\ SixRowExample =>
         /\ Len(rankSelected) = 6
         /\ {rankSelected[i] : i \in 1..6} = {rankRows[i] : i \in 1..6}

C12_Witness ==
  /\ rankPc = "ranked"
  /\ SixRowExample
  /\ Len(rankSelected) = 6
  /\ rankRows[1].score < rankRows[2].score
  /\ rankSelected[1] = rankRows[2]

\* ------------------------------------------------------------------------
\* rankAndSelect under any caps, on result sets with several rows per clause
\* ------------------------------------------------------------------------
\* bound on the number of rows handed in
MaxSelectRows == 3
\* bound on the caps
MaxCap == 2

\* another chunk of the same clause
OtherChunk(row) == [row EXCEPT !.id = @ \o "-b", !.content = @ \o " (continued)"]

\* rows of clause 1.1 (vector hits at 0.7 and 0.4, graph rows at the
\* synthetic score, two chunks each) and of clause 2.1
SelectRowChoices ==
  LET a70 == Row("5", "1", "1.1", "Materials", 70, FALSE, CONTENT_OK)
      a40 == Row("5", "1", "1.1", "Materials", 40, FALSE, CONTENT_OK)
      g50 == Row("5", "1", "1.1", "Materials", 50, TRUE, CONTENT_OK)
      b90 == Row("5", "2", "2.1", "Workmanship", 90, FALSE, CONTENT_OK)
      h50 == Row("5", "2", "2.1", "Workmanship", 50, TRUE, CONTENT_OK)
  IN {a70, a40, OtherChunk(a40), g50, OtherChunk(g50), b90, h50}

\* the next row of the result set handed in
AddRowFrom(choices) ==
  /\ rankPc = "building"
  /\ Len(rankRows) < MaxSelectRows
  /\ \E row \in choices : rankRows' = Append(rankRows, row)
  /\ UNCHANGED <<rankFiltered, rankSelected, rankPc, rankMaxTotal, rankMaxGraph,
                 pipeVars, queryVars, scriptVars, storeVars, hsVars, travVars, buildVars>>

SelectAddRow == AddRowFrom(SelectRowChoices)

InitSelect ==
  /\ PipeIdle
  /\ QueryIdle
  /\ ScriptIdle
  /\ BuildIdle
  /\ rankRows = <<>>
  /\ rankFiltered = <<>>
  /\ rankSelected = <<>>
  /\ rankPc = "building"
  /\ rankMaxTotal \in 0..MaxCap
  /\ rankMaxGraph \in 0..MaxCap
  /\ StoreIdle
  /\ HsIdle

NextSelect ==
  \/ SelectAddRow
  \/ RankApply

SpecSelect == InitSelect /\ [][NextSelect]_vars

\* C26 (as claimed): for all inputs and all caps maxTotal >= 0 and
\* maxGraph >= 0, 0 included, rankAndSelect returns at most maxTotal
\* entries, of which at most maxGraph are graph-origin.
C26_SelectionWithinCaps ==
  rankPc = "ranked" =>
    /\ Len(rankSelected) <= rankMaxTotal
    /\ GraphCount(rankSelected) <= rankMaxGraph

\* the rows of the result set with the key
GroupOf(rows, key) == {i \in 1..Len(rows) : KeyTriple(rows[i]) = key}

\* the row of the group that must survive: of vector origin if the group
\* has a vector row, of maximal score within that origin, the earliest one
SurvivorOf(rows, key) ==
  LET group == GroupOf(rows, key)
      origin == \A i \in group : rows[i].isGraph
      same == {i \in group : rows[i].isGraph = origin}
      best == {i \in same : \A j \in same : rows[i].score >= rows[j].score}
  IN rows[CHOOSE i \in best : \A j \in best : i <= j]

\* the caps cut no row off
CapsAdmitAll ==
  /\ rankMaxTotal >= Cardinality(KeysOf(rankFiltered))
  /\ rankMaxGraph >= Cardinality(KeysOf(rankFiltered))

\* C27: when several rows of the input of rankAndSelect share a (section,
\* part, clause) key, the one surviving row is vector-origin if any row of
\* the group is vector-origin, even when a graph-origin row of the group
\* has a higher score, and among the rows of the surviving origin it has
\* the maximal score, the earliest such row in input order winning ties.
C27_DedupPrefersVectorThenScore ==
  (rankPc = "ranked" /\ CapsAdmitAll) =>
    \A key \in KeysOf(rankFiltered) :
      LET kept == {i \in 1..Len(rankSelected) : KeyTriple(rankSelected[i]) = key}
      IN /\ Cardinality(kept) = 1
         /\ \A i \in kept : rankSelected[i] = SurvivorOf(rankFiltered, key)

\* a group of a graph row and two vector rows of equal, lower score: the
\* first of the vector rows survives
C27_Witness ==
  /\ rankPc = "ranked"
  /\ CapsAdmitAll
  /\ \E key \in KeysOf(rankFiltered) :
       \E g, v, w \in GroupOf(rankFiltered, key) :
         /\ rankFiltered[g].isGraph
         /\ ~rankFiltered[v].isGraph /\ ~rankFiltered[w].isGraph
         /\ v < w
         /\ rankFiltered[v] # rankFiltered[w]
         /\ rankFiltered[v].score = rankFiltered[w].score
         /\ rankFiltered[g].score > rankFiltered[v].score
         /\ rankSelected = <<rankFiltered[v]>>

\* ------------------------------------------------------------------------
\* filterResults on rows the filter must drop, followed by rankAndSelect
\* ------------------------------------------------------------------------
\* a clause found by a short chunk and by a full one, a generic heading
\* found by the graph and by the vector search, a row without clause
\* number, and a graph row of a fourth clause
FilterRowChoices ==
  {Row("5", "1", "1.1", "Materials", 70, FALSE, CONTENT_OK),
   Row("5", "1", "1.1", "Materials", 88, FALSE, "See Part 1."),
   Row("5", "2", "2.1", "Scope", 50, TRUE, CONTENT_OK),
   Row("5", "2", "2.1", "Scope", 60, FALSE, CONTENT_OK),
   Row("5", "3", "  ", "General", 90, FALSE, CONTENT_OK),
   Row("5", "4", "4.1", "Materials", 50, TRUE, CONTENT_OK)}

FilterAddRow == AddRowFrom(FilterRowChoices)

InitFilter ==
  /\ PipeIdle
  /\ QueryIdle
  /\ ScriptIdle
  /\ BuildIdle
  /\ rankRows = <<>>
  /\ rankFiltered = <<>>
  /\ rankSelected = <<>>
  /\ rankPc = "building"
  /\ rankMaxTotal = MAX_TOTAL_REFS
  /\ rankMaxGraph = MAX_TOTAL_GRAPH_REFS
  /\ StoreIdle
  /\ HsIdle

NextFilter ==
  \/ FilterAddRow
  \/ RankApply

SpecFilter == InitFilter /\ [][NextFilter]_vars

\* a is b with some elements left out
RECURSIVE IsSubsequence(_, _)
IsSubsequence(a, b) ==
  IF a = <<>> THEN TRUE
  ELSE IF b = <<>> THEN FALSE
  ELSE IF Head(a) = Head(b) THEN IsSubsequence(Tail(a), Tail(b))
  ELSE IsSubsequence(a, Tail(b))

HasClauseAndContent(r) ==
  Trim(r.clauseNumber) # "" /\ Len(Trim(r.content)) >= MIN_CONTENT_CHARS

GenericHeading(r) == toLowerCase(Trim(r.clauseTitle)) \in GENERIC_HEADINGS

\* C30: filterResults is applied to the joined results before dedup and
\* ranking and returns a subsequence of its input with the rows unmodified:
\* every retained row has a non-empty clause identifier and content of at
\* least the minimum length, a graph-origin row whose title is a generic
\* section heading is dropped, and a vector-origin row of the same title
\* that passes the other filters is retained.
C30_FilterBeforeRanking ==
  rankPc = "ranked" =>
    /\ IsSubsequence(rankFiltered, rankRows)
    /\ \A i \in 1..Len(rankFiltered) : HasClauseAndContent(rankFiltered[i])
    /\ \A i \in 1..Len(rankRows) :
         GenericHeading(rankRows[i]) =>
           IF rankRows[i].isGraph
             THEN rankRows[i] \notin SeqRange(rankFiltered)
             ELSE HasClauseAndContent(rankRows[i]) => rankRows[i] \in SeqRange(rankFiltered)
    /\ SeqRange(rankSelected) \subseteq SeqRange(rankFiltered)
    /\ KeysOf(rankSelected) = KeysOf(rankFiltered)

\* the graph row of a generic heading was dropped and the vector row of the
\* same heading kept, and the short chunk, which has the higher score, was
\* dropped before dedup, so that its clause is still cited
C30_Witness ==
  /\ rankPc = "ranked"
  /\ \E i, j \in 1..Len(rankRows) :
       /\ GenericHeading(rankRows[i]) /\ rankRows[i].isGraph
       /\ GenericHeading(rankRows[j]) /\ ~rankRows[j].isGraph
       /\ rankRows[i].clauseTitle = rankRows[j].clauseTitle
       /\ rankRows[j] \in SeqRange(rankSelected)
  /\ \E i \in 1..Len(rankRows) : ~HasClauseAndContent(rankRows[i])

\* C25: for every final evidence list, formatting it into a citation
\* section with buildCitationSection and reading the list lines of the
\* section back yields the same reference strings in the same order.
C25_CitationSectionRoundTrip ==
  rankPc = "ranked" =>
    \A refList \in {[i \in 1..Len(rankSelected) |-> buildReference(rankSelected[i])]} :
      parseCitationSection(buildCitationSection(refList)) = References(refList)

\* the evidence list holds three references, of vector and of graph origin
C25_Witness ==
  /\ rankPc = "ranked"
  /\ Len(rankSelected) = 3
  /\ GraphCount(rankSelected) = 1

\* ------------------------------------------------------------------------
\* buildDeterministicQueries on analyses with any suggested queries
\* ------------------------------------------------------------------------
\* bound on the number of suggested queries of the analysis
MaxSuggested == 4

\* suggestedQCSQueries entries: blank, spelled twice, equal to a baseline
\* query up to case and spacing, and three of their own
SuggestedChoices ==
  {"  ",
   "Concrete cube strength",
   " concrete  CUBE strength ",
   " QCS 2024  Masonry Block Work and mortar requirements ",
   "rebar bending schedule",
   "waterproofing membrane"}

\* the analyzer adds a suggested query to its analysis
QbSuggest ==
  /\ qbPc = "building"
  /\ ~qbAnalysis.isNull
  /\ Len(qbAnalysis.suggestedQCSQueries) < MaxSuggested
  /\ \E q \in SuggestedChoices :
       qbAnalysis' = [qbAnalysis EXCEPT !.suggestedQCSQueries = Append(@, q)]
  /\ UNCHANGED <<qbQueries, qbPc, pipeVars, rankVars, storeVars, hsVars, travVars, buildVars,
                 scriptVars>>

\* const queries = buildDeterministicQueries(analysis);
QbBuild ==
  /\ qbPc = "building"
  /\ qbQueries' = buildDeterministicQueries(qbAnalysis)
  /\ qbPc' = "built"
  /\ UNCHANGED <<qbAnalysis, pipeVars, rankVars, storeVars, hsVars, travVars, buildVars,
                 scriptVars>>

InitQueries ==
  /\ PipeIdle
  /\ RankIdle
  /\ StoreIdle
  /\ HsIdle
  /\ BuildIdle
  /\ ScriptIdle
  /\ qbAnalysis \in {NullAnalysis, [ANALYSIS_METHOD_STATEMENT EXCEPT !.suggestedQCSQueries = <<>>]}
  /\ qbQueries = <<>>
  /\ qbPc = "building"

NextQueries ==
  \/ QbSuggest
  \/ QbBuild

SpecQueries == InitQueries /\ [][NextQueries]_vars

\* suggested queries followed by the baseline queries
QbMerged == (IF qbAnalysis.isNull THEN <<>> ELSE qbAnalysis.suggestedQCSQueries) \o BaselineQueries

\* the positions, in ascending order, of the non-blank keys that are not
\* equal to an earlier key
FirstPositions(keys) ==
  SelectSeq([i \in 1..Len(keys) |-> i],
            LAMBDA i : keys[i] # "" /\ \A j \in 1..(i - 1) : keys[j] # keys[i])

NormalizedQueries(qs) == [i \in 1..Len(qs) |-> normalizeQuery(qs[i])]

\* C29: buildDeterministicQueries returns a list with at most 8 entries, no
\* blank entry and no two entries equal under normalization (trim,
\* lower-case, whitespace collapse), in which the analysis-suggested
\* queries precede the baseline queries, each group in its original order:
\* the entries are the first occurrences, trimmed, in the order of the
\* suggested queries followed by the baseline queries.
C29_QueriesCappedDistinctOrdered ==
  qbPc = "built" =>
    \A keys \in {NormalizedQueries(qbQueries)} :
      \A firsts \in {FirstPositions(NormalizedQueries(QbMerged))} :
        /\ Len(qbQueries) <= 8
        /\ \A i \in 1..Len(qbQueries) : Trim(qbQueries[i]) # ""
        /\ \A i, j \in 1..Len(keys) : i # j => keys[i] # keys[j]
        /\ Len(qbQueries) <= Len(firsts)
        /\ \A k \in 1..Len(qbQueries) : qbQueries[k] = Trim(QbMerged[firsts[k]])

\* the cap cut a baseline query off, and a suggested query was left out as
\* the second spelling of an earlier one
C29_Witness ==
  /\ qbPc = "built"
  /\ Len(qbQueries) = 8
  /\ BaselineQueries[Len(BaselineQueries)] \notin SeqRange(qbQueries)
  /\ \E i, j \in 1..Len(qbAnalysis.suggestedQCSQueries) :
       /\ i < j
       /\ qbAnalysis.suggestedQCSQueries[i] = "Concrete cube strength"
       /\ qbAnalysis.suggestedQCSQueries[j] = " concrete  CUBE strength "

\* C38: for every analysis value, null and analyses with empty, blank or
\* duplicate suggested queries included, buildDeterministicQueries returns
\* at least 6 and at most 8 queries, so the list is never empty.
C38_BetweenSixAndEightQueries ==
  qbPc = "built" => Len(qbQueries) >= 6 /\ Len(qbQueries) <= 8 /\ qbQueries # <<>>

\* a blank suggestion and a second spelling of a baseline query add nothing:
\* the list has exactly the six baseline entries' worth of queries
C38_Witness ==
  /\ qbPc = "built"
  /\ ~qbAnalysis.isNull
  /\ "  " \in SeqRange(qbAnalysis.suggestedQCSQueries)
  /\ " QCS 2024  Masonry Block Work and mortar requirements " \in SeqRange(qbAnalysis.suggestedQCSQueries)
  /\ Len(qbAnalysis.suggestedQCSQueries) = MaxSuggested
  /\ Len(qbQueries) = 6

\* ------------------------------------------------------------------------
\* The knowledge graph store and the writes of graph construction
\* ------------------------------------------------------------------------
AlphaNumeric == CharsOf(LowerLetters \o Digits)

\* name.toLowerCase().replace(/[^a-z0-9]+/g, "_"): t is already lowercase
RECURSIVE CollapseNonAlnum(_, _, _)
CollapseNonAlnum(t, i, inRun) ==
  IF i > Len(t) THEN ""
  ELSE IF Char(t, i) \in AlphaNumeric THEN Char(t, i) \o CollapseNonAlnum(t, i + 1, FALSE)
  ELSE (IF inRun THEN "" ELSE "_") \o CollapseNonAlnum(t, i + 1, TRUE)

\* .replace(/^_|_$/g, "")
StripUnderscores(t) ==
  LET a == IF Len(t) > 0 /\ Char(t, 1) = "_" THEN SubSeq(t, 2, Len(t)) ELSE t
  IN IF Len(a) > 0 /\ Char(a, Len(a)) = "_" THEN SubSeq(a, 1, Len(a) - 1) ELSE a

normalizeEntityName(name) == StripUnderscores(CollapseNonAlnum(toLowerCase(name), 1, FALSE))

entityId(type, name) == type \o ":" \o normalizeEntityName(name)

\* the store: hashes g:ent:<id> and g:rel:<id>, strings g:ent:idx:<name>,
\* sets g:chunk:<id>:ents and g:ent:<id>:rels.  A set is kept as the
\* sequence of its members in the order they were first added.
EmptyStore == [ent |-> <<>>, idx |-> <<>>, chunkEnts |-> <<>>, rel |-> <<>>, adj |-> <<>>]

Lookup(f, k, default) == IF k \in DOMAIN f THEN f[k] ELSE default

Put(f, k, v) == (k :> v) @@ f

Members(s) == {s[i] : i \in 1..Len(s)}

\* SADD key member, with the mistake of adding the member again
SAdd_appends(f, k, member) == Put(f, k, Append(Lookup(f, k, <<>>), member))

\* SADD key member
SAdd(f, k, member) ==
  LET old == Lookup(f, k, <<>>)
  IN IF member \in Members(old) THEN f ELSE Put(f, k, Append(old, member))

\* HSET g:ent:<id>: the fields given replace the stored ones, a field not
\* given is left as it is
HSetEntity(f, k, fields) ==
  LET old == Lookup(f, k, [name |-> "", type |-> "", description |-> ""])
  IN Put(f, k, [name |-> fields.name, type |-> fields.type,
                description |-> IF fields.description # "" THEN fields.description
                                ELSE old.description])

Cmd(op, key, val) == [op |-> op, key |-> key, val |-> val]

\* one command of a pipeline applied to the store
execCommand(store, cmd) ==
  CASE cmd.op = "hset_ent" -> [store EXCEPT !.ent = HSetEntity(@, cmd.key, cmd.val)]
    [] cmd.op = "set_idx" -> [store EXCEPT !.idx = Put(@, cmd.key, cmd.val)]
    [] cmd.op = "sadd_chunk" -> [store EXCEPT !.chunkEnts = SAdd(@, cmd.key, cmd.val)]
    [] cmd.op = "hset_rel" -> [store EXCEPT !.rel = Put(@, cmd.key, cmd.val)]
    [] cmd.op = "sadd_adj" -> [store EXCEPT !.adj = SAdd(@, cmd.key, cmd.val)]

RECURSIVE execAll(_, _)
execAll(store, cmds) ==
  IF cmds = <<>> THEN store ELSE execAll(execCommand(store, Head(cmds)), Tail(cmds))

\* the commands queued for one entity of a window
EntityCommands(ent, chunkIds) ==
  LET eid == entityId(ent.type, ent.name)
  IN <<Cmd("hset_ent", eid, [name |-> ent.name, type |-> ent.type, description |-> ent.description]),
       Cmd("set_idx", normalizeEntityName(ent.name), eid)>>
     \o [i \in 1..Len(chunkIds) |-> Cmd("sadd_chunk", chunkIds[i], eid)]

\* groupResult.entities.find((e) => e.name === name)?.type || "MATERIAL"
FoundType(entities, name) ==
  LET at == {i \in 1..Len(entities) : entities[i].name = name}
  IN IF at = {} THEN "MATERIAL" ELSE entities[CHOOSE i \in at : \A j \in at : i <= j].type

\* the record and the ids of one relationship of a window
RelationshipRecord(rel, entities, chunkIds) ==
  [type |-> rel.type,
   sourceEntity |-> entityId(FoundType(entities, rel.source), rel.source),
   targetEntity |-> entityId(FoundType(entities, rel.target), rel.target),
   chunkIds |-> chunkIds]

RelId(rec) == rec.sourceEntity \o "--" \o rec.type \o "--" \o rec.targetEntity

RelationshipCommands(rel, entities, chunkIds) ==
  LET rec == RelationshipRecord(rel, entities, chunkIds)
  IN <<Cmd("hset_rel", RelId(rec), rec),
       Cmd("sadd_adj", rec.sourceEntity, RelId(rec)),
       Cmd("sadd_adj", rec.targetEntity, RelId(rec))>>

\* the pipeline writeGraphBatch builds for one group result
pipelineCommands(groupResult, group) ==
  Flat([i \in 1..Len(groupResult.entities) |->
          EntityCommands(groupResult.entities[i], group.chunkIds)])
  \o Flat([i \in 1..Len(groupResult.relationships) |->
             RelationshipCommands(groupResult.relationships[i], groupResult.entities, group.chunkIds)])

\* the group results of an extraction that name a group of the batch
NamedGroupResults(extraction, groups) ==
  SelectSeq(extraction.groups, LAMBDA gr : gr.groupIndex \in 0..(Len(groups) - 1))

\* writeGraphBatch: the store after the pipelines of all group results, and
\* the counts it returns
writeGraphBatch(store, extraction, groups) ==
  LET results == NamedGroupResults(extraction, groups)
      cmds == Flat([i \in 1..Len(results) |->
                      pipelineCommands(results[i], groups[results[i].groupIndex + 1])])
      sum(f) == LET RECURSIVE S(_)
                    S(i) == IF i = 0 THEN 0 ELSE f[i] + S(i - 1)
                IN S(Len(results))
  IN [store |-> execAll(store, cmds),
      entities |-> sum([i \in 1..Len(results) |-> Len(results[i].entities)]),
      relationships |-> sum([i \in 1..Len(results) |-> Len(results[i].relationships)])]

\* ------------------------------------------------------------------------
\* Graph reads: entitiesForChunks and traverse
\* ------------------------------------------------------------------------
RECURSIVE Dedup(_, _)
Dedup(items, kept) ==
  IF items = <<>> THEN kept
  ELSE Dedup(Tail(items), IF Head(items) \in Members(kept) THEN kept ELSE Append(kept, Head(items)))

\* the entity ids linked to the chunk ids
getEntitiesForChunks(store, chunkIds) ==
  Dedup(Flat([i \in 1..Len(chunkIds) |-> Lookup(store.chunkEnts, chunkIds[i], <<>>)]), <<>>)

TravMayExpand_one_more(hop, maxHops) == hop <= maxHops

\* for each hop up to maxHops
TravMayExpand(hop, maxHops) == hop < maxHops

\* the relationship ids adjacent to the frontier that were not read before
AdjacentRelIds(store, frontier, seen) ==
  SelectSeq(Dedup(Flat([i \in 1..Len(frontier) |-> Lookup(store.adj, frontier[i], <<>>)]), <<>>),
            LAMBDA r : r \notin seen)

RECURSIVE AppendChunks_unbounded(_, _, _)
AppendChunks_unbounded(result, chunkIds, maxChunks) ==
  IF chunkIds = <<>> THEN result
  ELSE AppendChunks_unbounded(IF Head(chunkIds) \in Members(result) THEN result
                              ELSE Append(result, Head(chunkIds)),
                              Tail(chunkIds), maxChunks)

\* append the provenance chunk ids to the result until maxChunks is reached
RECURSIVE AppendChunks(_, _, _)
AppendChunks(result, chunkIds, maxChunks) ==
  IF chunkIds = <<>> \/ Len(result) >= maxChunks THEN result
  ELSE AppendChunks(IF Head(chunkIds) \in Members(result) THEN result
                    ELSE Append(result, Head(chunkIds)),
                    Tail(chunkIds), maxChunks)

\* one relationship id of the batch read: a missing record is skipped; a
\* record gives its chunk ids and its endpoints not visited yet
TravRecord(acc, relId, rel, maxChunks) ==
  IF relId \notin DOMAIN rel THEN [acc EXCEPT !.skipped = Append(@, relId)]
  ELSE LET rec == rel[relId]
           ends == SelectSeq(Dedup(<<rec.sourceEntity, rec.targetEntity>>, <<>>),
                             LAMBDA e : e \notin acc.visited)
       IN [acc EXCEPT !.result = AppendChunks(@, rec.chunkIds, maxChunks),
                      !.log = @ \o rec.chunkIds,
                      !.visited = @ \cup Members(ends),
                      !.next = @ \o ends]

TravRemaining_stops_at_missing(relIds, rel) ==
  IF Head(relIds) \notin DOMAIN rel THEN <<>> ELSE Tail(relIds)

\* the relationship ids still to process after the first
TravRemaining(relIds, rel) == Tail(relIds)

\* the records of one hop, in the order read, until the chunk budget is met
RECURSIVE TravRecords(_, _, _, _)
TravRecords(acc, relIds, rel, maxChunks) ==
  IF relIds = <<>> \/ Len(acc.result) >= maxChunks THEN acc
  ELSE TravRecords(TravRecord(acc, Head(relIds), rel, maxChunks),
                   TravRemaining(relIds, rel), rel, maxChunks)

\* ------------------------------------------------------------------------
\* A call of hybridSearch against a store that is being written
\* ------------------------------------------------------------------------
MaxHops == 2
MaxDropped == 1
ChunkBudgets == {1, 3, 12}

Entity(name, type, description) == [name |-> name, type |-> type, description |-> description]
Relationship(source, type, target) == [source |-> source, target |-> target, type |-> type]
GroupResult(groupIndex, entities, relationships) ==
  [groupIndex |-> groupIndex, entities |-> entities, relationships |-> relationships]
ChunkGroup(chunkIds) == [chunkIds |-> chunkIds]

\* three windows already in the graph: cement, its standard and a property
\* of it, each relationship recorded by a different window
GROUPS_BASE == <<ChunkGroup(<<"c1", "c2">>), ChunkGroup(<<"c3">>), ChunkGroup(<<"c4">>)>>

EXTRACTION_BASE ==
  [groups |->
     <<GroupResult(0, <<Entity("Portland Cement", "MATERIAL", "Hydraulic binder"),
                        Entity("BS EN 197-1", "STANDARD", "")>>,
                   <<Relationship("Portland Cement", "MUST_COMPLY_WITH", "BS EN 197-1")>>),
       GroupResult(1, <<Entity("portland cement", "MATERIAL", ""),
                        Entity("Compressive Strength", "PROPERTY", "")>>,
                   <<Relationship("portland cement", "HAS_PROPERTY", "Compressive Strength")>>),
       GroupResult(2, <<Entity("Compressive Strength", "PROPERTY", "28-day strength"),
                        Entity("BS EN 197-1", "STANDARD", "")>>,
                   <<Relationship("Compressive Strength", "TESTED_BY", "BS EN 197-1")>>)>>]

BASE_STORE == writeGraphBatch(EmptyStore, EXTRACTION_BASE, GROUPS_BASE).store

\* the window whose pipeline is being executed while the search runs
GROUP_INGEST == ChunkGroup(<<"c5">>)
RESULT_INGEST ==
  GroupResult(0, <<Entity("Fly Ash", "MATERIAL", ""), Entity("Portland Cement", "MATERIAL", "")>>,
              <<Relationship("Fly Ash", "ALTERNATIVE_TO", "Portland Cement")>>)

\* the chunks of the index by id; c4 has no metadata
ChunkRow(id, score, isGraph) ==
  [Row("5", "2", "2." \o id, "Cement", score, isGraph, CONTENT_OK) EXCEPT !.id = id]

IndexedChunks == {"c1", "c2", "c3", "c5", "c9"}

\* vectorResults of the call: a chunk of the first window, a chunk of the
\* second one with it, or a chunk no window of the graph covers
VectorResultChoices ==
  {<<ChunkRow("c1", 82, FALSE)>>,
   <<ChunkRow("c3", 77, FALSE), ChunkRow("c1", 71, FALSE)>>,
   <<ChunkRow("c3", 77, FALSE), ChunkRow("c1", 42, FALSE)>>,
   <<ChunkRow("c9", 64, FALSE)>>}

Ids(rows) == [i \in 1..Len(rows) |-> rows[i].id]

NewChunkIds_unfiltered(graphChunkIds, vectorChunkIds) == graphChunkIds

\* graphChunkIds.filter((id) => !existingIds.has(id))
NewChunkIds(graphChunkIds, vectorChunkIds) ==
  SelectSeq(graphChunkIds, LAMBDA id : id \notin Members(vectorChunkIds))

FetchGraphResults_similarity_scored(newChunkIds) ==
  LET found == SelectSeq(newChunkIds, LAMBDA id : id \in IndexedChunks)
  IN [i \in 1..Len(found) |-> ChunkRow(found[i], 82, TRUE)]

\* index.fetch(newChunkIds) mapped to graph results
FetchGraphResults(newChunkIds) ==
  LET found == SelectSeq(newChunkIds, LAMBDA id : id \in IndexedChunks)
  IN [i \in 1..Len(found) |-> ChunkRow(found[i], 50, TRUE)]

\* the store executes the next command of the pipeline
IngestExec ==
  /\ ingestPending # <<>>
  /\ redis' = execCommand(redis, Head(ingestPending))
  /\ ingestPending' = Tail(ingestPending)
  /\ UNCHANGED <<dropped, hsVars, travVars, rankVars, pipeVars, queryVars, scriptVars, buildVars>>

\* the next command of the pipeline fails; the ones after it still run
IngestDrop ==
  /\ ingestPending # <<>>
  /\ dropped < MaxDropped
  /\ dropped' = dropped + 1
  /\ ingestPending' = Tail(ingestPending)
  /\ UNCHANGED <<redis, hsVars, travVars, rankVars, pipeVars, queryVars, scriptVars, buildVars>>

HsReturn(result, how) ==
  /\ hsResult' = result
  /\ hsOutcome' = how
  /\ hsPc' = "done"

\* const vectorResults = await searchQCS(query, topK)
HsSearchVector ==
  /\ hsPc = "start"
  /\ \E rows \in VectorResultChoices : hsVector' = rows
  /\ hsPc' = "entities"
  /\ UNCHANGED <<hsMaxHops, hsMaxChunks, hsEntityIds, hsResult, hsOutcome,
                 travVars, storeVars, rankVars, pipeVars, queryVars, scriptVars, buildVars>>

\* getEntitiesForChunks resolves; no entity: the vector results are returned
HsEntitiesOk ==
  /\ hsPc = "entities"
  /\ \E entityIds \in {getEntitiesForChunks(redis, Ids(hsVector))} :
       /\ hsEntityIds' = entityIds
       /\ IF Len(entityIds) = 0
            THEN HsReturn(hsVector, "no_entities") /\ UNCHANGED travVars
            ELSE /\ hsPc' = "traverse"
                 /\ travVisited' = Members(entityIds)
                 /\ travFrontier' = entityIds
                 /\ UNCHANGED <<hsResult, hsOutcome, travHop, travRelIds, travSeenRels,
                                travResult, travExpanded, travLog, travSkipped>>
  /\ UNCHANGED <<hsMaxHops, hsMaxChunks, hsVector, storeVars, rankVars, pipeVars, queryVars, scriptVars, buildVars>>

\* getEntitiesForChunks rejects: caught, the vector results are returned
HsEntitiesUnavailable ==
  /\ hsPc = "entities"
  /\ HsReturn(hsVector, "entities_unavailable")
  /\ UNCHANGED <<hsMaxHops, hsMaxChunks, hsVector, hsEntityIds,
                 travVars, storeVars, rankVars, pipeVars, queryVars, scriptVars, buildVars>>

\* the traversal goes on with another hop
TravContinues ==
  /\ TravMayExpand(travHop, hsMaxHops)
  /\ travFrontier # <<>>
  /\ Len(travResult) < hsMaxChunks

\* traverse: batch read of the relationship-id sets adjacent to the frontier
TravReadAdjacency ==
  /\ hsPc = "traverse"
  /\ TravContinues
  /\ \E relIds \in {AdjacentRelIds(redis, travFrontier, travSeenRels)} :
       /\ travRelIds' = relIds
       /\ travSeenRels' = travSeenRels \cup Members(relIds)
  /\ travHop' = travHop + 1
  /\ travExpanded' = travExpanded \o travFrontier
  /\ hsPc' = "records"
  /\ UNCHANGED <<hsMaxHops, hsMaxChunks, hsVector, hsEntityIds, hsResult, hsOutcome,
                 travVisited, travFrontier, travResult, travLog, travSkipped,
                 storeVars, rankVars, pipeVars, queryVars, scriptVars, buildVars>>

\* traverse: batch read of the relationship records, chunk ids appended,
\* unvisited endpoints collected as the next frontier
TravReadRecords ==
  /\ hsPc = "records"
  /\ \E acc \in {TravRecords([result |-> travResult, visited |-> travVisited, next |-> <<>>,
                              log |-> travLog, skipped |-> travSkipped],
                             travRelIds, redis.rel, hsMaxChunks)} :
       /\ travResult' = acc.result
       /\ travVisited' = acc.visited
       /\ travFrontier' = acc.next
       /\ travLog' = acc.log
       /\ travSkipped' = acc.skipped
  /\ hsPc' = "traverse"
  /\ UNCHANGED <<hsMaxHops, hsMaxChunks, hsVector, hsEntityIds, hsResult, hsOutcome,
                 travHop, travRelIds, travSeenRels, travExpanded, storeVars, rankVars, pipeVars, queryVars, scriptVars, buildVars>>

\* a read of the traversal finds the store unreachable: traverseGraph
\* rejects, and hybridSearch, which awaits it outside any try, rejects too
TravUnavailable ==
  /\ \/ hsPc = "traverse" /\ TravContinues
     \/ hsPc = "records"
  /\ HsReturn(<<>>, "traversal_unavailable")
  /\ UNCHANGED <<hsMaxHops, hsMaxChunks, hsVector, hsEntityIds,
                 travVars, storeVars, rankVars, pipeVars, queryVars, scriptVars, buildVars>>

\* traverseGraph resolves; the new chunk ids are fetched and appended
HsMerge ==
  /\ hsPc = "traverse"
  /\ ~TravContinues
  /\ LET newChunkIds == NewChunkIds(travResult, Ids(hsVector))
     IN IF Len(newChunkIds) = 0
          THEN HsReturn(hsVector, "no_new_chunks")
          ELSE HsReturn(hsVector \o FetchGraphResults(newChunkIds), "merged")
  /\ UNCHANGED <<hsMaxHops, hsMaxChunks, hsVector, hsEntityIds,
                 travVars, storeVars, rankVars, pipeVars, queryVars, scriptVars, buildVars>>

InitHybrid ==
  /\ PipeIdle
  /\ QueryIdle
  /\ ScriptIdle
  /\ BuildIdle
  /\ RankIdle
  /\ redis = BASE_STORE
  /\ ingestPending = pipelineCommands(RESULT_INGEST, GROUP_INGEST)
  /\ dropped = 0
  /\ hsPc = "start"
  /\ hsMaxHops \in 0..MaxHops
  /\ hsMaxChunks \in ChunkBudgets
  /\ hsVector = <<>>
  /\ hsEntityIds = <<>>
  /\ hsResult = <<>>
  /\ hsOutcome = "none"
  /\ TravIdle

NextHybrid ==
  \/ IngestExec
  \/ IngestDrop
  \/ HsSearchVector
  \/ HsEntitiesOk
  \/ HsEntitiesUnavailable
  \/ TravReadAdjacency
  \/ TravReadRecords
  \/ TravUnavailable
  \/ HsMerge

SpecHybrid == InitHybrid /\ [][NextHybrid]_vars

\* hybridSearch rejected instead of returning
HsRejected == hsOutcome = "traversal_unavailable"

\* C13 (as claimed): whenever the graph store is unavailable during a
\* hybridSearch call, at the entity lookup or at the traversal, or the
\* entity lookup yields no entities, hybridSearch returns exactly the vector
\* results instead of failing.
C13_GraphUnavailableReturnsVectorResults ==
  (hsPc = "done" /\ hsOutcome \in {"entities_unavailable", "traversal_unavailable", "no_entities"})
    => (~HsRejected /\ hsResult = hsVector)

NoDuplicates(items) == \A i, j \in 1..Len(items) : i # j => items[i] # items[j]

\* a seed entity has a relationship whose record carries chunk ids
SeedsHaveProvenance ==
  \E i \in 1..Len(hsEntityIds) :
    \E k \in 1..Len(Lookup(redis.adj, hsEntityIds[i], <<>>)) :
      LET r == redis.adj[hsEntityIds[i]][k]
      IN r \in DOMAIN redis.rel /\ Len(redis.rel[r].chunkIds) > 0

\* C18: a traversal with maxHops = 0 expands nothing and returns an empty
\* list of chunk ids, also when the seed entities have relationships with
\* provenance chunks.
C18_ZeroHopsReturnsNothing ==
  hsMaxHops = 0 =>
    /\ travResult = <<>>
    /\ travHop = 0
    /\ travExpanded = <<>>
    /\ (hsPc = "done" /\ ~HsRejected) => hsResult = hsVector

C18_Witness ==
  /\ hsPc = "done"
  /\ hsMaxHops = 0
  /\ hsOutcome = "no_new_chunks"
  /\ SeedsHaveProvenance
  /\ travResult = <<>>

\* C19: the traversal returns at most maxChunks chunk ids, without
\* duplicates, in the order in which they were first met; it makes at most
\* maxHops hop expansions and expands no entity twice.
C19_TraversalBounded ==
  /\ Len(travResult) <= hsMaxChunks
  /\ NoDuplicates(travResult)
  /\ LET met == Dedup(travLog, <<>>)
     IN travResult = SubSeq(met, 1, IF Len(met) < hsMaxChunks THEN Len(met) ELSE hsMaxChunks)
  /\ travHop <= hsMaxHops
  /\ Len(travExpanded) > 0 => travHop > 0
  /\ NoDuplicates(travExpanded)

C19_Witness ==
  /\ hsPc = "done"
  /\ ~HsRejected
  /\ Len(travResult) = hsMaxChunks
  /\ Len(Dedup(travLog, <<>>)) > hsMaxChunks
  /\ Len(travExpanded) > 1

\* a batch of relationship records has been read and processed
C20_RecordsStep ==
  (hsPc = "records" /\ hsPc' = "traverse") =>
    /\ hsOutcome' = "none"
    /\ Len(travResult') < hsMaxChunks =>
         \A i \in 1..Len(travRelIds) :
           LET r == travRelIds[i]
           IN IF r \notin DOMAIN redis.rel
                THEN r \in Members(travSkipped')
                ELSE /\ r \notin Members(travSkipped')
                     /\ Members(redis.rel[r].chunkIds) \subseteq Members(travResult')
                     /\ {redis.rel[r].sourceEntity, redis.rel[r].targetEntity} \subseteq travVisited'

\* the chunk ids collected come from relationship records of the store
C20_ChunksFromRecords ==
  Members(travResult) \subseteq UNION {Members(redis.rel[r].chunkIds) : r \in DOMAIN redis.rel}

\* C20: a traversal that reads an adjacency set naming a relationship id
\* whose record is missing skips that relationship: no error is raised, no
\* chunk id comes from it, and the other relationships of the frontier are
\* still processed, also while the pipeline of a window is being executed.
C20_MissingRecordSkipped == [](C20_ChunksFromRecords) /\ [][C20_RecordsStep]_vars

C20_Witness ==
  /\ hsPc = "done"
  /\ hsOutcome = "merged"
  /\ Len(travSkipped) > 0
  /\ \E i, k \in 1..Len(travRelIds) :
       /\ i < k
       /\ travRelIds[i] \in Members(travSkipped)
       /\ travRelIds[i] \notin DOMAIN redis.rel
       /\ travRelIds[k] \in DOMAIN redis.rel
       /\ Len(redis.rel[travRelIds[k]].chunkIds) > 0
       /\ Members(redis.rel[travRelIds[k]].chunkIds) \subseteq Members(travResult)

\* the rows hybridSearch returned after the vector results
HsGraphPart == SubSeq(hsResult, Len(hsVector) + 1, Len(hsResult))

\* C23: whenever hybridSearch adds graph-derived results, its output is the
\* vector results in their original order, each with its similarity score,
\* followed by the graph results, each with origin graph and the synthetic
\* score 0.5 (50 hundredths); the merged list is not re-sorted by score.
C23_VectorThenGraphUnsorted ==
  (hsPc = "done" /\ hsOutcome = "merged") =>
    /\ Len(hsResult) >= Len(hsVector)
    /\ SubSeq(hsResult, 1, Len(hsVector)) = hsVector
    /\ \A i \in 1..Len(hsVector) : ~hsResult[i].isGraph
    /\ \A i \in 1..Len(HsGraphPart) : HsGraphPart[i].isGraph /\ HsGraphPart[i].score = 50
    /\ Ids(HsGraphPart)
         = SelectSeq(travResult, LAMBDA id : id \in IndexedChunks /\ id \notin Members(Ids(hsVector)))

\* graph results were added behind a vector result of lower score
C23_Witness ==
  /\ hsPc = "done"
  /\ hsOutcome = "merged"
  /\ Len(HsGraphPart) >= 2
  /\ \E i \in 1..Len(hsVector) : hsVector[i].score < 50

\* C28: the graph-origin results of hybridSearch carry only chunk ids that
\* are not among the vector results of the call, no chunk id occurs twice
\* in the output, and at most maxGraphChunks graph-origin results are added.
C28_GraphResultsNewAndBounded ==
  (hsPc = "done" /\ ~HsRejected) =>
    LET graph == SelectSeq(hsResult, LAMBDA r : r.isGraph)
    IN /\ \A i \in 1..Len(graph) : graph[i].id \notin Members(Ids(hsVector))
       /\ NoDuplicates(Ids(hsResult))
       /\ Len(graph) <= hsMaxChunks

\* the traversal used its whole budget and came back with a chunk of the
\* vector results, which was left out, and with chunks that were added
C28_Witness ==
  /\ hsPc = "done"
  /\ hsOutcome = "merged"
  /\ Len(travResult) = hsMaxChunks
  /\ \E i \in 1..Len(travResult) : travResult[i] \in Members(Ids(hsVector))
  /\ Len(HsGraphPart) >= 1
\* ------------------------------------------------------------------------
\* Graph construction applied again to the same windows and extractions
\* ------------------------------------------------------------------------

MaxWrites == 3

Batch(extraction, groups) == [extraction |-> extraction, groups |-> groups]

\* a window whose extraction names a relationship target that is not among
\* the entities extracted for the window
GROUP_LOOSE == ChunkGroup(<<"c6">>)

RESULT_LOOSE ==
  GroupResult(0, <<Entity("Fly Ash", "MATERIAL", "")>>,
              <<Relationship("Fly Ash", "MUST_COMPLY_WITH", "ASTM C618")>>)

\* the calls of writeGraphBatch: single windows, the three base windows as
\* one batch, a window that names an entity of another window again
WRITE_BATCHES ==
  <<Batch([groups |-> <<EXTRACTION_BASE.groups[1]>>], <<GROUPS_BASE[1]>>),
    Batch([groups |-> <<[EXTRACTION_BASE.groups[2] EXCEPT !.groupIndex = 0]>>], <<GROUPS_BASE[2]>>),
    Batch(EXTRACTION_BASE, GROUPS_BASE),
    Batch([groups |-> <<RESULT_INGEST>>], <<GROUP_INGEST>>),
    Batch([groups |-> <<RESULT_LOOSE>>], <<GROUP_LOOSE>>)>>

Written(store, b) == writeGraphBatch(store, WRITE_BATCHES[b].extraction, WRITE_BATCHES[b].groups).store

\* first pass: one more call of writeGraphBatch
WriteBatch ==
  /\ wrPhase = "first"
  /\ Len(wrOrder) < MaxWrites
  /\ \E b \in 1..Len(WRITE_BATCHES) :
       /\ redis' = Written(redis, b)
       /\ wrOrder' = Append(wrOrder, b)
  /\ UNCHANGED <<wrPhase, wrPos, wrSnapshot, ingestPending, dropped, graphVars,
                 rankVars, hsVars, travVars, pipeVars, queryVars, scriptVars>>

\* the construction is started again over the same windows
StartRerun ==
  /\ wrPhase = "first"
  /\ wrOrder # <<>>
  /\ wrPhase' = "rerun"
  /\ wrSnapshot' = redis
  /\ UNCHANGED <<wrOrder, wrPos, storeVars, graphVars, rankVars, hsVars, travVars, pipeVars, queryVars, scriptVars>>

\* second pass: the same call with the same extraction
WriteAgain ==
  /\ wrPhase = "rerun"
  /\ wrPos < Len(wrOrder)
  /\ redis' = Written(redis, wrOrder[wrPos + 1])
  /\ wrPos' = wrPos + 1
  /\ UNCHANGED <<wrPhase, wrOrder, wrSnapshot, ingestPending, dropped, graphVars,
                 rankVars, hsVars, travVars, pipeVars, queryVars, scriptVars>>

InitWrite ==
  /\ PipeIdle
  /\ QueryIdle
  /\ ScriptIdle
  /\ RankIdle
  /\ HsIdle
  /\ GraphIdle
  /\ redis = EmptyStore
  /\ ingestPending = <<>>
  /\ dropped = 0
  /\ wrPhase = "first"
  /\ wrOrder = <<>>
  /\ wrPos = 0
  /\ wrSnapshot = <<>>

NextWrite ==
  \/ WriteBatch
  \/ StartRerun
  \/ WriteAgain

SpecWrite == InitWrite /\ [][NextWrite]_vars

\* a call of the second pass adds no key and no set member
C14_RerunStep ==
  (wrPhase = "rerun" /\ wrPos' = wrPos + 1) =>
    /\ DOMAIN redis'.ent = DOMAIN redis.ent
    /\ DOMAIN redis'.rel = DOMAIN redis.rel
    /\ DOMAIN redis'.idx = DOMAIN redis.idx
    /\ redis'.chunkEnts = redis.chunkEnts
    /\ redis'.adj = redis.adj

\* after the second pass the store is the store the first pass left
C14_RerunEnd ==
  (wrPhase = "rerun" /\ wrPos = Len(wrOrder)) => redis = wrSnapshot

\* C14: running writeGraphBatch again over the same windows with the same
\* extractions leaves the entity records, relationship records,
\* chunk-membership sets and adjacency sets of the store as they were; the
\* numbers of entities and relationships do not increase.
C14_RerunLeavesStoreUnchanged == [](C14_RerunEnd) /\ [][C14_RerunStep]_vars

C14_Witness ==
  /\ wrPhase = "rerun"
  /\ wrPos = Len(wrOrder)
  /\ Len(wrOrder) >= 2
  /\ Cardinality(DOMAIN redis.rel) >= 2
  /\ \E c \in DOMAIN redis.chunkEnts : Len(redis.chunkEnts[c]) >= 2
  /\ \E e \in DOMAIN redis.adj : Len(redis.adj[e]) >= 2

\* C16 (as claimed): every relationship record of the store has a source
\* entity id and a target entity id that name entity records of the store.
C16_EndpointsHaveEntityRecords ==
  \A r \in DOMAIN redis.rel :
    /\ redis.rel[r].sourceEntity \in DOMAIN redis.ent
    /\ redis.rel[r].targetEntity \in DOMAIN redis.ent
\* ------------------------------------------------------------------------
\* main of the graph build: waves of batches, tally, checkpoints, resumption
\* ------------------------------------------------------------------------

GROUPS_PER_CALL == 3
CONCURRENCY == 5
CHECKPOINT_WAVES == 5

\* failed batches over a run and its resumption
MaxBatchErrors == 1

\* the smallest number of windows for which a wave that follows a periodic
\* checkpoint is not the last wave
NumGroups == CONCURRENCY * GROUPS_PER_CALL * (CHECKPOINT_WAVES + 1) + 1

Min(a, b) == IF a < b THEN a ELSE b

ChunkIdOf(i) == "k" \o ToString(i)

\* groups[i] of the code is Groups[i + 1]
Groups == [i \in 1..NumGroups |-> ChunkGroup(<<ChunkIdOf(i - 1)>>)]

\* the start indexes i, i + GROUPS_PER_CALL, ... below groups.length
StartsFrom(i) ==
  IF i >= NumGroups THEN <<>>
  ELSE [j \in 1..((NumGroups - i + GROUPS_PER_CALL - 1) \div GROUPS_PER_CALL) |->
          i + (j - 1) * GROUPS_PER_CALL]

BatchStarts_from_zero(start) == StartsFrom(0)

\* the batches built upfront
BatchStarts(start) == StartsFrom(start)

Batches(start) ==
  LET starts == BatchStarts(start)
  IN [j \in 1..Len(starts) |->
        [batch |-> SubSeq(Groups, starts[j] + 1, Min(starts[j] + GROUPS_PER_CALL, NumGroups)),
         batchIndex |-> starts[j] \div GROUPS_PER_CALL,
         startIdx |-> starts[j]]]

WindowsOf(b) == b.startIdx..(b.startIdx + Len(b.batch) - 1)

WavePositions_all_at_once(start, w) == (w + 1)..Len(Batches(start))

\* the batches of the wave at offset w, by position
WavePositions(start, w) == (w + 1)..Min(w + CONCURRENCY, Len(Batches(start)))

\* what a successful extractBatch returns for a batch: for every window an
\* entity of its own and the standard that every window of the corpus names
ExtractionOf(batch) ==
  [groups |-> [g \in 1..Len(batch) |->
                 GroupResult(g - 1,
                             <<Entity("Clause " \o batch[g].chunkIds[1], "MATERIAL", ""),
                               Entity("QCS 2024", "STANDARD", "")>>,
                             <<>>)]]

NoExtraction == [groups |-> <<>>, failed |-> TRUE]

\* outcomes of the calls of extractBatch for one batch: TRUE is an
\* extraction, FALSE is null
AttemptOutcomes == {<<TRUE>>, <<FALSE, TRUE>>, <<FALSE, FALSE>>}

\* extraction, with one retry after a null
RetriedExtraction(batch, attempts) ==
  IF attempts[1] THEN ExtractionOf(batch)
  ELSE IF attempts[2] THEN ExtractionOf(batch)
  ELSE NoExtraction

Tally_failure_not_counted(acc, r) ==
  IF r.status = "fulfilled" /\ r.ok
    THEN [acc EXCEPT !.waveEnts = @ + r.entities, !.waveRels = @ + r.relationships,
                     !.processed = @ + r.groups]
  ELSE IF r.status = "fulfilled" /\ ~r.ok
    THEN [acc EXCEPT !.processed = @ + r.groups]
  ELSE [acc EXCEPT !.errors = @ + 1]

\* one result of Promise.allSettled added to the counters
Tally(acc, r) ==
  IF r.status = "fulfilled" /\ r.ok
    THEN [acc EXCEPT !.waveEnts = @ + r.entities, !.waveRels = @ + r.relationships,
                     !.processed = @ + r.groups]
  ELSE IF r.status = "fulfilled" /\ ~r.ok
    THEN [acc EXCEPT !.errors = @ + 1, !.processed = @ + r.groups]
  ELSE [acc EXCEPT !.errors = @ + 1]

RECURSIVE TallyAll(_, _, _, _)
TallyAll(acc, results, k, last) ==
  IF k > last THEN acc ELSE TallyAll(Tally(acc, results[k]), results, k + 1, last)

Checkpoint_one_batch_ahead(processed, entities, relationships, errors, completed) ==
  [written |-> TRUE, lastProcessedGroup |-> processed + GROUPS_PER_CALL, totalGroups |-> NumGroups,
   totalEntities |-> entities, totalRelationships |-> relationships, errors |-> errors,
   completed |-> completed]

Checkpoint(processed, entities, relationships, errors, completed) ==
  [written |-> TRUE, lastProcessedGroup |-> processed, totalGroups |-> NumGroups,
   totalEntities |-> entities, totalRelationships |-> relationships, errors |-> errors,
   completed |-> completed]

\* the batches, by batchIndex, whose extraction or write may fail: one of the
\* first wave, the last of the wave that writes the first periodic
\* checkpoint, one of the wave after it, and the last batch
FailingBatches ==
  {0, CONCURRENCY * CHECKPOINT_WAVES - 1, CONCURRENCY * CHECKPOINT_WAVES + 2,
   (NumGroups - 1) \div GROUPS_PER_CALL}

MayFail(b) == b.batchIndex \in FailingBatches /\ grInjected < MaxBatchErrors

\* history of a settled batch
Handled(b, ok) ==
  /\ grCompleted1' = IF grRun = 1 /\ ok THEN grCompleted1 \cup WindowsOf(b) ELSE grCompleted1
  /\ grHandled2' = IF grRun = 2 THEN grHandled2 \cup WindowsOf(b) ELSE grHandled2
  /\ grFailedWindows' = IF ok THEN grFailedWindows ELSE grFailedWindows \cup WindowsOf(b)
  /\ grInjected' = IF ok THEN grInjected ELSE grInjected + 1
  /\ grErrorWindows' = IF ok THEN grErrorWindows ELSE grErrorWindows \cup WindowsOf(b)

\* the promise of one batch of the wave fulfils: extraction, one retry, and
\* the write to the store when there is an extraction
BatchFulfilled ==
  /\ grPc = "wave"
  /\ \E k \in WavePositions(grStart, grW) \ DOMAIN grResults :
     \E extraction \in {RetriedExtraction(Batches(grStart)[k].batch, a) : a \in AttemptOutcomes} :
       LET b == Batches(grStart)[k]
       IN IF extraction = NoExtraction
            THEN /\ MayFail(b)
                 /\ grResults' = (k :> [status |-> "fulfilled", ok |-> FALSE, groups |-> Len(b.batch),
                                        entities |-> 0, relationships |-> 0]) @@ grResults
                 /\ redis' = redis
                 /\ Handled(b, FALSE)
            ELSE \E counts \in {writeGraphBatch(redis, extraction, b.batch)} :
                 /\ grResults' = (k :> [status |-> "fulfilled", ok |-> TRUE, groups |-> Len(b.batch),
                                        entities |-> counts.entities,
                                        relationships |-> counts.relationships]) @@ grResults
                 /\ redis' = counts.store
                 /\ Handled(b, TRUE)
  /\ UNCHANGED <<grPc, grRun, grStart, grW, grProcessed, grErrors, grTotalEntities,
                 grTotalRelationships, grCheckpoint, ingestPending, dropped, writeVars,
                 rankVars, hsVars, travVars, pipeVars, queryVars, scriptVars>>

\* the promise of one batch rejects: the write to the store threw
BatchRejected ==
  /\ grPc = "wave"
  /\ \E k \in WavePositions(grStart, grW) \ DOMAIN grResults :
       /\ MayFail(Batches(grStart)[k])
       /\ grResults' = (k :> [status |-> "rejected", ok |-> FALSE, groups |-> 0,
                              entities |-> 0, relationships |-> 0]) @@ grResults
       /\ Handled(Batches(grStart)[k], FALSE)
  /\ UNCHANGED <<grPc, grRun, grStart, grW, grProcessed, grErrors, grTotalEntities,
                 grTotalRelationships, grCheckpoint, storeVars, writeVars,
                 rankVars, hsVars, travVars, pipeVars, queryVars, scriptVars>>

\* all promises of the wave are settled: tally, checkpoint every few waves
\* and after the last wave, next wave
WaveEnd ==
  /\ grPc = "wave"
  /\ DOMAIN grResults = WavePositions(grStart, grW)
  /\ LET n == Len(Batches(grStart))
         waveNum == (grW \div CONCURRENCY) + 1
         acc == TallyAll([waveEnts |-> 0, waveRels |-> 0, processed |-> grProcessed,
                          errors |-> grErrors],
                         grResults, grW + 1, Min(grW + CONCURRENCY, n))
     IN /\ grProcessed' = acc.processed
        /\ grErrors' = acc.errors
        /\ grTotalEntities' = grTotalEntities + acc.waveEnts
        /\ grTotalRelationships' = grTotalRelationships + acc.waveRels
        /\ grCheckpoint' =
             IF waveNum % CHECKPOINT_WAVES = 0 \/ grW + CONCURRENCY >= n
               THEN Checkpoint(acc.processed, grTotalEntities + acc.waveEnts,
                               grTotalRelationships + acc.waveRels, acc.errors, FALSE)
               ELSE grCheckpoint
        /\ grW' = grW + CONCURRENCY
        /\ grPc' = IF grW + CONCURRENCY < n THEN "wave" ELSE "finishing"
  /\ grResults' = <<>>
  /\ UNCHANGED <<grRun, grStart, grCompleted1, grHandled2, grFailedWindows, grInjected,
                 grErrorWindows, storeVars, writeVars, rankVars, hsVars, travVars, pipeVars, queryVars, scriptVars>>

\* the final checkpoint
FinalCheckpoint ==
  /\ grPc = "finishing"
  /\ grCheckpoint' = Checkpoint(grProcessed, grTotalEntities, grTotalRelationships, grErrors, TRUE)
  /\ grPc' = "done"
  /\ UNCHANGED <<grRun, grStart, grW, grResults, grProcessed, grErrors, grTotalEntities,
                 grTotalRelationships, grCompleted1, grHandled2, grFailedWindows, grInjected,
                 grErrorWindows, storeVars, writeVars, rankVars, hsVars, travVars, pipeVars, queryVars, scriptVars>>

\* the first run is killed or ends with a fatal error
Interrupt ==
  /\ grRun = 1
  /\ grPc \in {"wave", "finishing"}
  /\ grPc' = "failed"
  /\ UNCHANGED <<grRun, grStart, grW, grResults, grProcessed, grErrors, grTotalEntities,
                 grTotalRelationships, grCheckpoint, grCompleted1, grHandled2, grFailedWindows,
                 grInjected, grErrorWindows, storeVars, writeVars, rankVars, hsVars, travVars, pipeVars, queryVars, scriptVars>>

\* the script is started again with START_FROM set to the processed count of
\* the progress file
Resume ==
  /\ grPc = "failed"
  /\ grCheckpoint.written
  /\ grRun' = 2
  /\ grStart' = grCheckpoint.lastProcessedGroup
  /\ grProcessed' = grCheckpoint.lastProcessedGroup
  /\ grW' = 0
  /\ grResults' = <<>>
  /\ grErrors' = 0
  /\ grTotalEntities' = 0
  /\ grTotalRelationships' = 0
  /\ grFailedWindows' = {}
  /\ grPc' = IF BatchStarts(grCheckpoint.lastProcessedGroup) = <<>> THEN "finishing" ELSE "wave"
  /\ UNCHANGED <<grCheckpoint, grCompleted1, grHandled2, grInjected, grErrorWindows,
                 storeVars, writeVars, rankVars, hsVars, travVars, pipeVars, queryVars, scriptVars>>

InitGraph ==
  /\ PipeIdle
  /\ QueryIdle
  /\ ScriptIdle
  /\ RankIdle
  /\ HsIdle
  /\ WriteIdle
  /\ redis = EmptyStore
  /\ ingestPending = <<>>
  /\ dropped = 0
  /\ grPc = "wave"
  /\ grRun = 1
  /\ grStart = 0
  /\ grW = 0
  /\ grResults = <<>>
  /\ grProcessed = 0
  /\ grErrors = 0
  /\ grTotalEntities = 0
  /\ grTotalRelationships = 0
  /\ grCheckpoint = NoCheckpoint
  /\ grCompleted1 = {}
  /\ grHandled2 = {}
  /\ grFailedWindows = {}
  /\ grInjected = 0
  /\ grErrorWindows = {}

\* a run that is not interrupted
NextBuild ==
  \/ BatchFulfilled
  \/ BatchRejected
  \/ WaveEnd
  \/ FinalCheckpoint

\* a promise of the current wave has not settled: the enabling condition of
\* BatchFulfilled
BatchPending == grPc = "wave" /\ WavePositions(grStart, grW) \ DOMAIN grResults # {}

\* main runs to its end unless it is killed: the tally and the final
\* checkpoint are weakly fair, and so is the settling of a pending promise,
\* WF_vars(BatchFulfilled), stated with ENABLED <<BatchFulfilled>>_vars
\* written out as BatchPending
SpecBuild ==
  /\ InitGraph
  /\ [][NextBuild]_vars
  /\ WF_vars(WaveEnd)
  /\ WF_vars(FinalCheckpoint)
  /\ ([]<>(~BatchPending) \/ []<><<BatchFulfilled>>_vars)

\* a run that may be interrupted and resumed from its checkpoint
NextGraph ==
  \/ BatchFulfilled
  \/ BatchRejected
  \/ WaveEnd
  \/ FinalCheckpoint
  \/ Interrupt
  \/ Resume

SpecGraph == InitGraph /\ [][NextGraph]_vars
\* C15 (as claimed): the resumed run processes no window that the failed
\* run completed.
C15_NoCompletedWindowProcessedAgain == grCompleted1 \cap grHandled2 = {}

\* C15 (amended): a run resumed from the processed count of the last
\* checkpoint processes no window whose index is below that count; windows
\* that the failed run completed at or after that index are processed again.
C15_ResumedRunStartsAtCheckpoint ==
  grRun = 2 => \A i \in grHandled2 : i >= grStart

C15_Witness ==
  /\ grRun = 2
  /\ grPc = "done"
  /\ grStart > 0
  /\ grHandled2 = grStart..(NumGroups - 1)
  /\ grCompleted1 \cap grHandled2 # {}

\* results of the current wave that are not successes
FailedResults == {k \in DOMAIN grResults : ~grResults[k].ok}

\* a batch without extraction settles: nothing is written
C17_FailedBatchStep ==
  (\E k \in DOMAIN grResults' \ DOMAIN grResults :
      grResults'[k].status = "fulfilled" /\ ~grResults'[k].ok)
    => redis' = redis

\* one error per failed batch; the windows of the other batches are written,
\* those of the failed batches are not
C17_ErrorsAndOthers ==
  /\ grErrors + Cardinality(FailedResults) = grInjected
  /\ grPc \in {"finishing", "done"} =>
       \A i \in 0..(NumGroups - 1) :
         (ChunkIdOf(i) \in DOMAIN redis.chunkEnts) <=> (i \notin grFailedWindows)

C17_Completed ==
  /\ grPc = "done"
  /\ grCheckpoint.written
  /\ grCheckpoint.completed
  /\ grCheckpoint.errors = grErrors

InFlight == IF grPc = "wave" THEN WavePositions(grStart, grW) \ DOMAIN grResults ELSE {}

\* the wave of the batch at position k
WaveOf(k) == (k - 1) \div 5

\* at most 5 batches are in flight, and all batches of the earlier waves
\* have settled
C32_WaveState ==
  \A batches \in {Batches(grStart)} :
    /\ Cardinality(InFlight) <= 5
    /\ \A k \in InFlight : \A j \in 1..Len(batches) :
         WaveOf(j) < WaveOf(k) => WindowsOf(batches[j]) \subseteq (grCompleted1 \cup grFailedWindows)

\* the progress file is written when no batch is in flight and before a
\* batch of the next wave has settled
C32_CheckpointStep ==
  grCheckpoint' # grCheckpoint => InFlight = {} /\ grResults' = <<>>

\* C32: batches run in waves of bounded size: at most 5 batches are in
\* flight at any moment, no batch of wave k+1 is started before every batch
\* of wave k has settled, and checkpoints are written only between waves.
C32_BoundedWaves == [](C32_WaveState) /\ [][C32_CheckpointStep]_vars

\* the sixth wave is in flight with its five batches, after the periodic
\* checkpoint of the fifth wave
C32_Witness ==
  /\ grPc = "wave"
  /\ grW = 5 * CHECKPOINT_WAVES
  /\ Cardinality(InFlight) = 5
  /\ grCheckpoint.written
  /\ ~grCheckpoint.completed

\* C34: at-least-once coverage: when a run is followed by a run started at
\* the processed count of the last checkpoint, every window of the corpus
\* has been in a settled batch of one of the two runs, and the windows of
\* that batch were written to the store or the batch was counted as an
\* error; no window is silently skipped.
C34_AtLeastOnceCoverage ==
  (grRun = 2 /\ grPc = "done") =>
    \A i \in 0..(NumGroups - 1) :
      \/ i \in grErrorWindows
      \/ /\ i \in grCompleted1 \cup grHandled2
         /\ ChunkIdOf(i) \in DOMAIN redis.chunkEnts

\* the first run lost a batch below the checkpointed count, was interrupted
\* and was resumed from that count
C34_Witness ==
  /\ grRun = 2
  /\ grPc = "done"
  /\ grStart > 0
  /\ grStart < NumGroups
  /\ \E i \in grErrorWindows : i < grStart /\ ChunkIdOf(i) \notin DOMAIN redis.chunkEnts
  /\ grHandled2 = grStart..(NumGroups - 1)

\* C40: after a run from offset 0 over an empty store, the totalEntities
\* and totalRelationships counters of the final checkpoint (the values also
\* written to the graph metadata) equal the numbers of distinct entity
\* records and relationship records in the store.
C40_TotalsMatchStore ==
  (grRun = 1 /\ grPc = "done") =>
    /\ grCheckpoint.totalEntities = Cardinality(DOMAIN redis.ent)
    /\ grCheckpoint.totalRelationships = Cardinality(DOMAIN redis.rel)

\* ---------------------------------------------------------------------
\* The model calls of one wave of the build script: each batch of the wave
\* runs the closure of main, which calls extractBatch and, when that
\* returns null, calls it once more
\* ---------------------------------------------------------------------

\* batches in the wave
MaxWaveBatches == 3

WaveBatches == 1..MaxWaveBatches

otherVarsExtract == <<pipeVars, rankVars, storeVars, hsVars, travVars, buildVars, queryVars, groupVars>>

\* extractBatch has returned null: the closure of main calls it a second
\* time, and gives the batch up when the second call returns null too
ExtractionReturnsNull(b) ==
  IF exRound[b] = 1
    THEN /\ exRound' = [exRound EXCEPT ![b] = 2]
         /\ exPc' = [exPc EXCEPT ![b] = "generateObject"]
    ELSE /\ exPc' = [exPc EXCEPT ![b] = "skipped"]
         /\ UNCHANGED exRound

\* generateObject returns an object: extractBatch returns it, the closure
\* writes the batch
generateObjectOk(b) ==
  /\ exPc[b] = "generateObject"
  /\ exCalls' = [exCalls EXCEPT ![b].object = @ + 1]
  /\ exPc' = [exPc EXCEPT ![b] = "written"]
  /\ UNCHANGED <<exRound, otherVarsExtract>>

\* generateObject throws: extractBatch falls back to generateText
generateObjectFail(b) ==
  /\ exPc[b] = "generateObject"
  /\ exCalls' = [exCalls EXCEPT ![b].object = @ + 1]
  /\ exPc' = [exPc EXCEPT ![b] = "generateText"]
  /\ UNCHANGED <<exRound, otherVarsExtract>>

\* generateText returns a text whose JSON parses and validates
generateTextOk(b) ==
  /\ exPc[b] = "generateText"
  /\ exCalls' = [exCalls EXCEPT ![b].text = @ + 1]
  /\ exPc' = [exPc EXCEPT ![b] = "written"]
  /\ UNCHANGED <<exRound, otherVarsExtract>>

\* generateText throws, or its text holds no JSON, or the JSON does not
\* parse or validate: extractBatch returns null
generateTextFail(b) ==
  /\ exPc[b] = "generateText"
  /\ exCalls' = [exCalls EXCEPT ![b].text = @ + 1]
  /\ ExtractionReturnsNull(b)
  /\ UNCHANGED otherVarsExtract

InitExtract ==
  /\ PipeIdle
  /\ RankIdle
  /\ StoreIdle
  /\ HsIdle
  /\ BuildIdle
  /\ QueryIdle
  /\ GroupIdle
  /\ exPc = [b \in WaveBatches |-> "generateObject"]
  /\ exRound = [b \in WaveBatches |-> 1]
  /\ exCalls = [b \in WaveBatches |-> [object |-> 0, text |-> 0]]

NextExtract ==
  \E b \in WaveBatches :
    \/ generateObjectOk(b)
    \/ generateObjectFail(b)
    \/ generateTextOk(b)
    \/ generateTextFail(b)

SpecExtract == InitExtract /\ [][NextExtract]_vars

\* C31: for every batch, extraction makes at most one schema-constrained
\* call and, only after that call has failed, one unstructured call; when
\* the unstructured call fails too the batch is skipped (at most two model
\* calls per batch).
C31_AtMostTwoCallsPerBatch ==
  \A b \in WaveBatches :
    /\ exCalls[b].object <= 1
    /\ exCalls[b].text <= 1
    /\ exCalls[b].text <= exCalls[b].object
    /\ exPc[b] = "skipped" => exCalls[b].object + exCalls[b].text = 2

\* ---------------------------------------------------------------------
\* Chunk grouping of the build script: groupChunks and buildGroup
\* ---------------------------------------------------------------------

MAX_GROUP_TOKENS == 2000
OVERLAP_SENTENCES == 2

\* chunks in the input of groupChunks
MaxChunks == 4

SentenceEnders == CharsOf(".!?")

\* the matches of /[^.!?]+[.!?]+/g in t from position i on
RECURSIVE MatchSentences(_, _)
MatchSentences(t, i) ==
  IF i > Len(t) THEN <<>>
  ELSE IF Char(t, i) \in SentenceEnders THEN MatchSentences(t, i + 1)
  ELSE LET enders == {m \in i..Len(t) : Char(t, m) \in SentenceEnders}
       IN IF enders = {} THEN <<>>
          ELSE LET j == CHOOSE m \in enders : \A o \in enders : m <= o
                   after == {m \in j..Len(t) : Char(t, m) \notin SentenceEnders}
                   k == IF after = {} THEN Len(t) + 1
                        ELSE CHOOSE m \in after : \A o \in after : m <= o
               IN <<SubSeq(t, i, k - 1)>> \o MatchSentences(t, k)

\* Array.prototype.slice(-n)
LastN(s, n) == SubSeq(s, IF Len(s) > n THEN Len(s) - n + 1 ELSE 1, Len(s))

getLastSentences(text, n) ==
  LET matches == MatchSentences(text, 1)
      sentences == IF matches = <<>> THEN <<text>> ELSE matches
  IN Trim(Join(LastN(sentences, n), " "))

\* Math.ceil(n / 4)
CeilQuarter(n) == (n + 3) \div 4

buildGroup(chunks, previousContent) ==
  LET overlap == getLastSentences(previousContent, OVERLAP_SENTENCES)
      overlapPart ==
        IF previousContent # "" /\ OVERLAP_SENTENCES > 0 /\ Len(overlap) > 20
          THEN <<"[context overlap] " \o overlap>>
          ELSE <<>>
      chunkPart(c) ==
        (IF c.clauseNumber # ""
           THEN "[Clause " \o c.clauseNumber \o ": " \o c.clauseTitle \o "]"
           ELSE "[Section " \o c.sectionNumber \o ", Part " \o c.partNumber \o "]")
        \o "\n" \o c.content
      parts == overlapPart \o [i \in 1..Len(chunks) |-> chunkPart(chunks[i])]
      combined == Join(parts, "\n\n")
  IN [chunkIds |-> [i \in 1..Len(chunks) |-> chunks[i].id],
      combinedContent |-> combined,
      sectionNumber |-> chunks[1].sectionNumber,
      sectionTitle |-> chunks[1].sectionTitle,
      partNumber |-> chunks[1].partNumber,
      partTitle |-> chunks[1].partTitle,
      tokenEstimate |-> CeilQuarter(Len(combined))]

\* the value of a run of digits
RECURSIVE NumberOf(_)
NumberOf(d) ==
  IF d = "" THEN 0
  ELSE 10 * NumberOf(SubSeq(d, 1, Len(d) - 1))
       + (CHOOSE v \in 0..9 : Char(Digits, v + 1) = Char(d, Len(d)))

\* the length of the run of digits t starts with
RECURSIVE DigitRun(_)
DigitRun(t) ==
  IF t # "" /\ Char(t, 1) \in CharsOf(Digits) THEN 1 + DigitRun(SubSeq(t, 2, Len(t))) ELSE 0

\* the collation order of the separators of a sort key
SeparatorRank(c) == CHOOSE r \in 1..2 : Char("_.", r) = c

\* a.localeCompare(b, undefined, { numeric: true }) on keys made of
\* digits, "_" and ".": runs of digits compare by value, separators sort
\* before digits, a proper prefix sorts first
RECURSIVE localeCompareNumeric(_, _)
localeCompareNumeric(a, b) ==
  IF a = "" /\ b = "" THEN 0
  ELSE IF a = "" THEN -1
  ELSE IF b = "" THEN 1
  ELSE LET da == DigitRun(a)
           db == DigitRun(b)
       IN IF da > 0 /\ db > 0
            THEN LET na == NumberOf(SubSeq(a, 1, da))
                     nb == NumberOf(SubSeq(b, 1, db))
                 IN IF na < nb THEN -1
                    ELSE IF na > nb THEN 1
                    ELSE localeCompareNumeric(SubSeq(a, da + 1, Len(a)), SubSeq(b, db + 1, Len(b)))
          ELSE IF da > 0 THEN 1
          ELSE IF db > 0 THEN -1
          ELSE IF Char(a, 1) = Char(b, 1)
            THEN localeCompareNumeric(SubSeq(a, 2, Len(a)), SubSeq(b, 2, Len(b)))
          ELSE IF SeparatorRank(Char(a, 1)) < SeparatorRank(Char(b, 1)) THEN -1
          ELSE 1

SortKey(c) == c.sectionNumber \o "_" \o c.partNumber \o "_" \o c.clauseNumber

\* Array.prototype.sort with the key comparator: stable
RECURSIVE InsertChunk(_, _)
InsertChunk(sorted, c) ==
  IF sorted = <<>> THEN <<c>>
  ELSE IF localeCompareNumeric(SortKey(c), SortKey(Head(sorted))) < 0 THEN <<c>> \o sorted
  ELSE <<Head(sorted)>> \o InsertChunk(Tail(sorted), c)

RECURSIVE SortChunks(_)
SortChunks(chunks) ==
  IF chunks = <<>> THEN <<>>
  ELSE InsertChunk(SortChunks(SubSeq(chunks, 1, Len(chunks) - 1)), chunks[Len(chunks)])

\* the locals of groupChunks before its loop
GroupingStart == [groups |-> <<>>, currentGroup |-> <<>>, currentTokens |-> 0,
                  previousGroupLastContent |-> ""]

SameContext(st, chunk) ==
  \/ st.currentGroup = <<>>
  \/ /\ chunk.sectionNumber = st.currentGroup[1].sectionNumber
     /\ chunk.partNumber = st.currentGroup[1].partNumber

\* the flush of the current group when a chunk does not join it
Flushed(st) ==
  IF st.currentGroup # <<>>
    THEN [st EXCEPT !.groups = Append(@, buildGroup(st.currentGroup, st.previousGroupLastContent)),
                    !.previousGroupLastContent = st.currentGroup[Len(st.currentGroup)].content]
    ELSE st

groupChunksBody_keeps_overlap(st, chunk) ==
  IF SameContext(st, chunk) /\ st.currentTokens + chunk.tokenEstimate <= MAX_GROUP_TOKENS
    THEN [st EXCEPT !.currentGroup = Append(@, chunk),
                    !.currentTokens = @ + chunk.tokenEstimate]
    ELSE [Flushed(st) EXCEPT !.currentGroup = <<chunk>>,
                             !.currentTokens = chunk.tokenEstimate]

\* one iteration of the loop of groupChunks
groupChunksBody(st, chunk) ==
  IF SameContext(st, chunk) /\ st.currentTokens + chunk.tokenEstimate <= MAX_GROUP_TOKENS
    THEN [st EXCEPT !.currentGroup = Append(@, chunk),
                    !.currentTokens = @ + chunk.tokenEstimate]
    ELSE [Flushed(st) EXCEPT !.currentGroup = <<chunk>>,
                             !.currentTokens = chunk.tokenEstimate,
                             !.previousGroupLastContent =
                                IF SameContext(st, chunk) THEN @ ELSE ""]

RECURSIVE GroupingLoop(_, _)
GroupingLoop(st, sorted) ==
  IF sorted = <<>> THEN st ELSE GroupingLoop(groupChunksBody(st, Head(sorted)), Tail(sorted))

groupChunks(chunks) == Flushed(GroupingLoop(GroupingStart, SortChunks(chunks))).groups

\* corpus chunks
Chunk(id, section, part, clause, title, content, tokenEstimate) ==
  [id |-> id, sectionNumber |-> section, sectionTitle |-> "Section " \o section,
   partNumber |-> part, partTitle |-> "Part " \o part, clauseNumber |-> clause,
   clauseTitle |-> title, content |-> content, tokenEstimate |-> tokenEstimate]

CONTENT_THREE_SENTENCES ==
  "General. Cement shall comply with BS EN 197! Samples shall be submitted."
CONTENT_NO_SENTENCE == "Aggregates for concrete and mortar"
CONTENT_SHORT == "See Part 1."

ChunkPool ==
  { Chunk("chunk-1", "5", "3", "3.1", "Cement", CONTENT_THREE_SENTENCES, 900),
    Chunk("chunk-2", "5", "3", "3.2", "Aggregates", CONTENT_NO_SENTENCE, 900),
    Chunk("chunk-3", "5", "3", "3.10", "Water", CONTENT_SHORT, 900),
    Chunk("chunk-4", "5", "4", "4.1", "Admixtures", CONTENT_THREE_SENTENCES, 300),
    Chunk("chunk-5", "13", "3", "", "", CONTENT_THREE_SENTENCES, 2500),
    Chunk("chunk-6", "13", "3", "3.1", "Blocks", CONTENT_SHORT, 100) }

\* the corpus files the script can load: chunks of the pool in any order,
\* each at most once
ChunkInputs ==
  {cs \in UNION {[1..n -> ChunkPool] : n \in 0..MaxChunks} :
     \A i, j \in 1..Len(cs) : i # j => cs[i] # cs[j]}

otherVarsGroup == <<pipeVars, rankVars, storeVars, hsVars, travVars, buildVars, queryVars, extractVars>>

\* const groups = groupChunks(chunks);
GroupChunks ==
  /\ gcPc = "loaded"
  /\ gcGroups' = groupChunks(gcChunks)
  /\ gcPc' = "grouped"
  /\ UNCHANGED <<gcChunks, otherVarsGroup>>

InitGroup ==
  /\ PipeIdle
  /\ RankIdle
  /\ StoreIdle
  /\ HsIdle
  /\ BuildIdle
  /\ QueryIdle
  /\ ExtractIdle
  /\ gcChunks \in ChunkInputs
  /\ gcGroups = <<>>
  /\ gcPc = "loaded"

NextGroup == GroupChunks

SpecGroup == InitGroup /\ [][NextGroup]_vars

\* the input chunk with an id
ChunkOfId(id) == CHOOSE c \in ChunkPool : c.id = id

\* the places (window, position) an input chunk takes in the windows
PlacesOf(id) ==
  {wp \in {<<w, p>> : w \in 1..Len(gcGroups), p \in 1..MaxChunks + 1} :
     wp[2] <= Len(gcGroups[wp[1]].chunkIds) /\ gcGroups[wp[1]].chunkIds[wp[2]] = id}

RECURSIVE SumTokens(_)
SumTokens(ids) ==
  IF ids = <<>> THEN 0 ELSE ChunkOfId(Head(ids)).tokenEstimate + SumTokens(Tail(ids))

CarriesOverlap(g) == LitAt(g.combinedContent, "[context overlap] ", 1)

\* C33: groupChunks partitions the corpus: every input chunk is in exactly
\* one window and the windows hold input chunks only, the chunks of a
\* window share the window's section and part, the token estimates of a
\* window's chunks sum to at most MAX_GROUP_TOKENS unless the window is a
\* single chunk, and a window carries overlap context only if the window
\* before it has the same section and part.
C33_GroupChunksPartitions ==
  gcPc = "grouped" =>
    /\ \A i \in 1..Len(gcChunks) : Cardinality(PlacesOf(gcChunks[i].id)) = 1
    /\ \A w \in 1..Len(gcGroups) :
         LET g == gcGroups[w]
         IN /\ g.chunkIds # <<>>
            /\ \A p \in 1..Len(g.chunkIds) :
                 /\ \E i \in 1..Len(gcChunks) : gcChunks[i].id = g.chunkIds[p]
                 /\ ChunkOfId(g.chunkIds[p]).sectionNumber = g.sectionNumber
                 /\ ChunkOfId(g.chunkIds[p]).partNumber = g.partNumber
            /\ Len(g.chunkIds) = 1 \/ SumTokens(g.chunkIds) <= MAX_GROUP_TOKENS
            /\ CarriesOverlap(g) =>
                 /\ w > 1
                 /\ gcGroups[w - 1].sectionNumber = g.sectionNumber
                 /\ gcGroups[w - 1].partNumber = g.partNumber

\* a window of two chunks, the next window of the same part opened by the
\* budget and carrying overlap, and a window of one chunk over the budget
\* in another section, without overlap
C33_Witness ==
  /\ gcPc = "grouped"
  /\ Len(gcGroups) = 3
  /\ Len(gcGroups[1].chunkIds) = 2
  /\ CarriesOverlap(gcGroups[2])
  /\ gcGroups[2].partNumber = gcGroups[1].partNumber
  /\ SumTokens(gcGroups[3].chunkIds) > MAX_GROUP_TOKENS
  /\ gcGroups[3].sectionNumber # gcGroups[2].sectionNumber
  /\ ~CarriesOverlap(gcGroups[3])
  /\ gcChunks[1].id = gcGroups[3].chunkIds[1]
====
